---- MODULE Spec2Model ----
(***************************************************************************)
(* A model of cubical/data_handler.py: the partitioning of a measurement   *)
(* set into row chunks and tiles (ReadModelHandler.define_chunk, Tile),    *)
(* the transposition between the column layout and the cube layout         *)
(* (Tile._column_to_cube, Tile._cube_to_column), Tile.load with its flag   *)
(* resolution and its models, the padding of rows for Montblanc, and the   *)
(* life of a tile's shared region (get_chunk_cubes, set_chunk_cubes,       *)
(* create_solutions_chunk_dict, save, release).                            *)
(*                                                                         *)
(* Conventions.  Python indices are 0-based and are kept 0-based: a row    *)
(* number r addresses element r+1 of a TLA+ sequence (operator At).  Flag  *)
(* words (FL.PRIOR, FL.MISSING, ..., bitflag masks) are modelled as the    *)
(* set of the bits that are raised: | is \cup, & is \cap, ~x is the        *)
(* complement, "!= 0" is "# {}".  Complex numbers are pairs <<re, im>>;    *)
(* a part of magnitude NonFinite or more stands for inf or nan.            *)
(* cubical.tools.shared_dict is modelled by its contract: create needs     *)
(* the name to be free, attach needs the region to exist, delete removes   *)
(* it.                                                                     *)
(*                                                                         *)
(* The specifications share the variables: SpecChunk (define_chunk on      *)
(* rows of any TIME and DDID), SpecLoad (define_chunk and Tile.load under  *)
(* every flag configuration), SpecCube (define_chunk, Tile.load and the    *)
(* cube transposition of every chunk), SpecPrep (the Montblanc padding of  *)
(* a loaded tile), SpecTile (the operations of a tile's life in any        *)
(* order), SpecSave (chunk cubes and flags written back and saved),        *)
(* SpecGet (get_chunk_cubes with models) and SpecWork (set_chunk_cubes in  *)
(* two workers, statement by statement).                                   *)
(***************************************************************************)
EXTENDS Integers, Sequences, FiniteSets, TLC

VARIABLES
    pc,         \* phase of the handler: "constructed", then "chunked"
    ms,         \* the selected rows of the measurement set (its columns)
    opts,       \* configuration: handler options and define_chunk arguments
    handler,    \* fields that define_chunk sets on the ReadModelHandler
    tile_list,  \* Tile.tile_list
    shared,     \* the shared_dict regions, by name
    tilemem,    \* per-tile attributes living outside the region (bflagcol, bflagrow, uvwco)
    cube,       \* the last cube built by _column_to_cube, with the chunk it was built for
    ret,        \* what the last prep_for_montblanc call returned
    workers,    \* the set_chunk_cubes calls under way in worker processes
    gain_dict,  \* ReadModelHandler.gain_dict
    calls,      \* a log: the add_to_gain_dict calls so far, with their arguments; the
                \* writes that the table received from the last putslice
    outcome     \* the last operation: [op, tile, status ("ok" / "error"), error]

vars == <<pc, ms, opts, handler, tile_list, shared, tilemem, cube, ret, workers, gain_dict,
          calls, outcome>>

----------------------------------------------------------------------------
(* Bounds of the model *)

MaxRows == 4            \* rows of the data set in the partitioning runs
MaxCubeRows == 3        \* rows of the data set in the transposition runs
MaxLoadRows == 3
MaxPrepRows == 7        \* rows of the data set in the load runs

Timestamps == {10, 20, 30}      \* values of the TIME column
DDIDs == <<0, 1>>               \* the selected DDIDs, handler._ddids
TDims == {1, 2}                 \* define_chunk's tdim
FreqShapes == {<<1, 1>>, <<2, 1>>, <<3, 2>>, <<2, 3>>, <<4, 2>>}   \* <<nfreq, fdim>>
MinChunks == {1, 2, 3}          \* define_chunk's min_chunks_per_tile

----------------------------------------------------------------------------
(* Helpers standing for Python / numpy built-ins *)

At(s, i) == s[i + 1]
Last(s) == s[Len(s)]
SeqRange(s) == {s[i] : i \in DOMAIN s}
SetMin(S) == CHOOSE x \in S : \A y \in S : x <= y
SetMax(S) == CHOOSE x \in S : \A y \in S : x >= y

RECURSIVE SortSet(_)
\* sorted(S), np.unique: the elements of a set of integers in ascending order
SortSet(S) == IF S = {} THEN <<>>
              ELSE LET m == SetMin(S) IN <<m>> \o SortSet(S \ {m})

IndexOf(s, v) == CHOOSE i \in DOMAIN s : s[i] = v

\* the sequences that list every element of S once
Orderings(S) ==
    {f \in [1..Cardinality(S) -> S] : \A i, j \in 1..Cardinality(S) : f[i] = f[j] => i = j}

\* range(start, stop, step) of Python 2, step >= 1
Range(start, stop, step) ==
    IF stop <= start THEN <<>>
    ELSE [i \in 1..((stop - start + step - 1) \div step) |-> start + (i - 1) * step]

\* seq[a:b] of Python for 0 <= a <= b <= len
Slice(s, a, b) == [i \in 1..(b - a) |-> s[a + i]]

----------------------------------------------------------------------------
(* RowChunk and Tile *)

RowChunk(ddid, tchunk, rows) == [ddid |-> ddid, tchunk |-> tchunk, rows |-> rows]

\* Tile.__init__
NewTile(chunk) ==
    [rowchunks |-> <<chunk>>,
     first_row |-> chunk.rows[1],
     last_row |-> Last(chunk.rows),
     rows_adjusted |-> FALSE,
     data_dict_name |-> <<>>,
     chunk_dict |-> <<>>,
     ddids |-> <<>>, ddid_col |-> <<>>, time_col |-> <<>>,
     antea |-> <<>>, anteb |-> <<>>, times |-> <<>>]

\* the tile's bflagcol / bflagrow / uvwco attributes before load() sets them;
\* padded is "yes" between prep_for_montblanc and unprep_for_montblanc, "failed"
\* once prep_for_montblanc has raised
NoBflag == [colset |-> FALSE, bflagcol |-> <<>>, rowset |-> FALSE, bflagrow |-> <<>>,
            uvwset |-> FALSE, uvwco |-> <<>>, padded |-> "no"]

Min2(a, b) == IF a <= b THEN a ELSE b
Max2(a, b) == IF a >= b THEN a ELSE b

\* mutant: append takes the chunks to come in row order and keeps first_row
TileAppendKeepsFirst(tile, chunk) ==
    [tile EXCEPT !.rowchunks = Append(@, chunk),
                 !.last_row = Max2(@, Last(chunk.rows))]

\* Tile.append
TileAppend(tile, chunk) ==
    [tile EXCEPT !.rowchunks = Append(@, chunk),
                 !.first_row = Min2(@, chunk.rows[1]),
                 !.last_row = Max2(@, Last(chunk.rows))]

\* Tile.merge
TileMerge(tile, other) ==
    [tile EXCEPT !.rowchunks = @ \o other.rowchunks,
                 !.first_row = Min2(@, other.first_row),
                 !.last_row = Max2(@, other.last_row)]

\* mutant: the label leaves out the frequency chunk
ChunkKeyNoFreq(ddid, tchunk, ifreq) == <<"D", ddid, "T", tchunk, "F", 0>>

\* the chunk label "D<ddid>T<tchunk>F<ifreq>", as the sequence of its parts
ChunkKey(ddid, tchunk, ifreq) == <<"D", ddid, "T", tchunk, "F", ifreq>>

\* OrderedDict.__setitem__: an existing key keeps its place, a new one goes last
DictSet(dict, key, val) ==
    IF \E i \in DOMAIN dict : dict[i].key = key
    THEN [i \in DOMAIN dict |-> IF dict[i].key = key THEN [key |-> key, val |-> val] ELSE dict[i]]
    ELSE Append(dict, [key |-> key, val |-> val])

RECURSIVE BuildChunkDict(_, _, _, _)
\* the double loop of Tile.finalize over row chunks and frequency chunks; j counts
\* the iterations already done
BuildChunkDict(rowchunks, chunk_find, j, dict) ==
    LET nfc == Len(chunk_find) - 1 IN
    IF j >= Len(rowchunks) * nfc THEN dict
    ELSE LET rc == (j \div nfc) + 1
             ifreq == j % nfc
             key == ChunkKey(rowchunks[rc].ddid, rowchunks[rc].tchunk, ifreq)
             val == [rowchunk |-> rc, chan0 |-> At(chunk_find, ifreq), chan1 |-> At(chunk_find, ifreq + 1)]
         IN BuildChunkDict(rowchunks, chunk_find, j + 1, DictSet(dict, key, val))

DigitChars == <<"0", "1", "2", "3", "4", "5", "6", "7", "8", "9">>

\* the decimal digits of a number below 100
Str(n) == IF n < 10 THEN <<DigitChars[n + 1]>>
          ELSE <<DigitChars[(n \div 10) + 1], DigitChars[(n % 10) + 1]>>

\* mutant: the region is named after the number of rows it spans
DataDictNameByLength(tile) ==
    <<"D", "A", "T", "A", ":">> \o Str(0) \o <<":">> \o Str(tile.last_row - tile.first_row)

\* "DATA:{}:{}".format(self.first_row, self.last_row), as the sequence of its characters
DataDictName(tile) ==
    <<"D", "A", "T", "A", ":">> \o Str(tile.first_row) \o <<":">> \o Str(tile.last_row)

\* the rows of every row chunk made relative to first_row
RowsRebased(tile) ==
    [i \in DOMAIN tile.rowchunks |->
        [tile.rowchunks[i] EXCEPT !.rows = [k \in DOMAIN @ |-> @[k] - tile.first_row]]]

\* mutant: finalize rebases the rows whether or not they have been rebased
FinalizeRebasesAgain(tile, h) ==
    LET adjusted == RowsRebased(tile)
        dict == BuildChunkDict(adjusted, h.chunk_find, 0, <<>>)
    IN [tile EXCEPT !.data_dict_name = DataDictName(tile),
                    !.rowchunks = adjusted,
                    !.rows_adjusted = TRUE,
                    !.chunk_dict = dict,
                    !.ddids = SortSet({adjusted[dict[i].val.rowchunk].ddid : i \in DOMAIN dict}),
                    !.ddid_col = Slice(h.ddid_col, tile.first_row, tile.last_row + 1),
                    !.time_col = Slice(h.time_col, tile.first_row, tile.last_row + 1),
                    !.antea = Slice(h.antea, tile.first_row, tile.last_row + 1),
                    !.anteb = Slice(h.anteb, tile.first_row, tile.last_row + 1),
                    !.times = Slice(h.times, tile.first_row, tile.last_row + 1)]

\* Tile.finalize; h is the handler
Finalize(tile, h) ==
    LET adjusted == IF ~tile.rows_adjusted
                    THEN [i \in DOMAIN tile.rowchunks |->
                            [tile.rowchunks[i] EXCEPT !.rows = [k \in DOMAIN @ |-> @[k] - tile.first_row]]]
                    ELSE tile.rowchunks
        dict == BuildChunkDict(adjusted, h.chunk_find, 0, <<>>)
    IN [tile EXCEPT !.data_dict_name = DataDictName(tile),
                    !.rowchunks = adjusted,
                    !.rows_adjusted = TRUE,
                    !.chunk_dict = dict,
                    !.ddids = SortSet({adjusted[dict[i].val.rowchunk].ddid : i \in DOMAIN dict}),
                    !.ddid_col = Slice(h.ddid_col, tile.first_row, tile.last_row + 1),
                    !.time_col = Slice(h.time_col, tile.first_row, tile.last_row + 1),
                    !.antea = Slice(h.antea, tile.first_row, tile.last_row + 1),
                    !.anteb = Slice(h.anteb, tile.first_row, tile.last_row + 1),
                    !.times = Slice(h.times, tile.first_row, tile.last_row + 1)]

----------------------------------------------------------------------------
(* ReadModelHandler.define_chunk *)

\* the timeslot index of every row: position of its TIME among the unique times
TimeslotIndex(time_col) ==
    LET uniq == SortSet(SeqRange(time_col))
    IN [i \in DOMAIN time_col |-> IndexOf(uniq, time_col[i]) - 1]

\* mutant: the final boundary nfreq is not appended
ChunkFindNoEnd(nfreq, fdim) == Range(0, nfreq, fdim)

\* handler.chunk_find
ChunkFind(nfreq, fdim) == Append(Range(0, nfreq, fdim), nfreq)

\* timechunks when chunk_by is not set
TimeChunks(times, tdim) == Append(Range(0, Last(times), tdim), Last(times) + 1)

\* rows of one DDID in one time chunk: np.where(mask)[0]
ChunkRows(ddid, ts0, ts1, times, ddid_col) ==
    SortSet({r \in 0..(Len(times) - 1) :
                At(ddid_col, r) = ddid /\ At(times, r) >= ts0 /\ At(times, r) < ts1})

\* the row chunks in the order of the loops (DDID, then time chunk), empty ones skipped
ChunkList(ddids, timechunks, times, ddid_col) ==
    LET ntc == Len(timechunks) - 1
        all == [j \in 1..(Len(ddids) * ntc) |->
                   LET ddid == ddids[((j - 1) \div ntc) + 1]
                       tchunk == (j - 1) % ntc
                   IN RowChunk(ddid, tchunk,
                               ChunkRows(ddid, At(timechunks, tchunk), At(timechunks, tchunk + 1),
                                         times, ddid_col))]
    IN SelectSeq(all, LAMBDA c : c.rows # <<>>)

RECURSIVE InsertSorted(_, _)
InsertSorted(sorted, c) ==
    IF sorted = <<>> THEN <<c>>
    ELSE IF Last(sorted).rows[1] <= c.rows[1] THEN Append(sorted, c)
    ELSE Append(InsertSorted(SubSeq(sorted, 1, Len(sorted) - 1), c), Last(sorted))

RECURSIVE SortChunks(_, _)
\* chunklist.sort(cmp=_compare_chunks): a stable sort on the first row
SortChunks(chunklist, done) ==
    IF chunklist = <<>> THEN done
    ELSE SortChunks(Tail(chunklist), InsertSorted(done, Head(chunklist)))

RECURSIVE GroupTiles(_, _)
\* the loop that breaks the sorted row chunks into tiles
GroupTiles(chunklist, tiles) ==
    IF chunklist = <<>> THEN tiles
    ELSE LET chunk == Head(chunklist) IN
         IF tiles = <<>> \/ chunk.rows[1] > Last(tiles).last_row
         THEN GroupTiles(Tail(chunklist), Append(tiles, NewTile(chunk)))
         ELSE GroupTiles(Tail(chunklist),
                         [tiles EXCEPT ![Len(tiles)] = TileAppend(@, chunk)])

\* mutant: the two counts are added instead of multiplied
HasMinChunksSum(tile, num_freq_chunks, min_chunks_per_tile) ==
    Len(tile.rowchunks) + num_freq_chunks >= min_chunks_per_tile

\* the test that the previous coarse tile already has the minimum number of chunks
HasMinChunks(tile, num_freq_chunks, min_chunks_per_tile) ==
    Len(tile.rowchunks) * num_freq_chunks >= min_chunks_per_tile

RECURSIVE Coarsen(_, _, _, _)
\* the coarsening loop
Coarsen(tiles, coarser, num_freq_chunks, min_chunks_per_tile) ==
    IF tiles = <<>> THEN coarser
    ELSE IF coarser = <<>> \/ HasMinChunks(Last(coarser), num_freq_chunks, min_chunks_per_tile)
    THEN Coarsen(Tail(tiles), Append(coarser, Head(tiles)), num_freq_chunks, min_chunks_per_tile)
    ELSE Coarsen(Tail(tiles), [coarser EXCEPT ![Len(coarser)] = TileMerge(@, Head(tiles))],
                 num_freq_chunks, min_chunks_per_tile)

\* the handler fields set by define_chunk(tdim, fdim, min_chunks_per_tile=...)
\* define_chunk's arguments chunk_by (None by default, here <<>>) and chunk_by_jump
ChunkByOf(o) == IF "chunk_by" \in DOMAIN o THEN o.chunk_by ELSE <<>>
ChunkByJumpOf(o) == IF "chunk_by_jump" \in DOMAIN o THEN o.chunk_by_jump ELSE 0

\* np.roll(value, 1): every element moves one place up, the last one comes first
Roll1(value) == [i \in DOMAIN value |-> IF i = 1 THEN value[Len(value)] ELSE value[i - 1]]

Abs(x) == IF x < 0 THEN 0 - x ELSE x

\* the rows where one column differs from the rolled column by more than jump_by
BoundaryRows(value, jump_by) ==
    {i \in 0..(Len(value) - 1) : Abs(At(Roll1(value), i) - At(value, i)) > jump_by}

\* ReadModelHandler.check_contig; m[column] is what fetch(column) returns
CheckContig(m, times, ntime, columns, jump_by) ==
    SortSet({0, ntime} \cup
            UNION {{At(times, i) : i \in BoundaryRows(m[columns[c]], jump_by)} : c \in DOMAIN columns})

RECURSIVE ScanTimeChunks(_, _, _, _)
\* the loop over scan_num that extends timechunks by the range of every scan
ScanTimeChunks(scan_chunks, scan_num, tdim, timechunks) ==
    IF scan_num >= Len(scan_chunks) - 1 THEN timechunks
    ELSE ScanTimeChunks(scan_chunks, scan_num + 1, tdim,
             timechunks \o Range(At(scan_chunks, scan_num), At(scan_chunks, scan_num + 1), tdim))

\* mutant: the scan boundaries are ignored and the timeslots cut uniformly
TimeChunksByIgnoringScans(m, times, ntime, o) == Append(Range(0, ntime, o.tdim), Last(times) + 1)

\* timechunks when chunk_by is set
TimeChunksBy(m, times, ntime, o) ==
    LET scan_chunks == CheckContig(m, times, ntime, ChunkByOf(o), ChunkByJumpOf(o))
    IN Append(ScanTimeChunks(scan_chunks, 0, o.tdim, <<>>), Last(times) + 1)

DefineChunkHandler(m, o) ==
    LET times == TimeslotIndex(m.time_col)
        ntime == Cardinality(SeqRange(m.time_col))
        timechunks == IF ChunkByOf(o) # <<>> THEN TimeChunksBy(m, times, ntime, o)
                      ELSE TimeChunks(times, o.tdim)
    IN [antea |-> m.antea, anteb |-> m.anteb,
        time_col |-> m.time_col, ddid_col |-> m.ddid_col,
        uniq_times |-> SortSet(SeqRange(m.time_col)),
        times |-> times,
        chunk_tdim |-> o.tdim, chunk_fdim |-> o.fdim,
        chunk_find |-> ChunkFind(o.nfreq, o.fdim),
        timechunks |-> timechunks,
        chunk_ntimes |-> [i \in 1..(Len(timechunks) - 1) |-> timechunks[i + 1] - timechunks[i]],
        chunk_timestamps |-> [i \in 1..(Len(timechunks) - 1) |->
                                 SortSet({times[r] : r \in {q \in DOMAIN times :
                                     times[q] >= timechunks[i] /\ times[q] < timechunks[i + 1]}})]]

\* Tile.tile_list as define_chunk leaves it
DefineChunkTiles(h, o) ==
    LET chunklist == SortChunks(ChunkList(o.ddids, h.timechunks, h.times, h.ddid_col), <<>>)
        tiles == GroupTiles(chunklist, <<>>)
        coarser == Coarsen(tiles, <<>>, Len(h.chunk_find) - 1, o.min_chunks_per_tile)
    IN [i \in DOMAIN coarser |-> Finalize(coarser[i], h)]

Outcome(op, t, status, error) == [op |-> op, tile |-> t, status |-> status, error |-> error]

DefineChunk ==
    /\ pc = "constructed"
    /\ pc' = "chunked"
    /\ handler' = DefineChunkHandler(ms, opts)
    /\ tile_list' = DefineChunkTiles(handler', opts)
    /\ tilemem' = [t \in DOMAIN tile_list' |-> NoBflag]
    /\ outcome' = Outcome("define_chunk", 0, "ok", "none")
    /\ UNCHANGED <<ms, opts, shared, cube, ret, workers, gain_dict, calls>>

\* Tile.get_chunk_keys: the keys of the OrderedDict, in its order
GetChunkKeys(tile) == [i \in DOMAIN tile.chunk_dict |-> tile.chunk_dict[i].key]

----------------------------------------------------------------------------
(* Flag configuration set up by ReadModelHandler.__init__ *)

\* bitflag masks are sets of named bits; flagmask(name) is the bit of that name
FlagMask(name) == IF name = "None" THEN {} ELSE {name}

\* flagopts: [reinit, apply (a set of bit names, {} when not given), save, auto_init
\* (a name or "None")]; bitflag is the BITFLAG column before construction, a record
\* [state ("absent", "unfilled" or "filled"), cells].  The result carries the
\* handler's flag attributes and the BITFLAG column as the constructor leaves it.
FlagSetup(bitflag, flagopts) ==
    LET kept == bitflag.state # "absent" /\ ~flagopts.reinit
        auto == flagopts.auto_init # "None"
        have == kept \/ auto
        column == IF kept THEN bitflag
                  ELSE [bitflag EXCEPT !.state = IF auto THEN "unfilled" ELSE "absent"]
    IN [constructed |-> have \/ flagopts.save = "None",
        BITFLAG |-> column,
        reinit_bitflags |-> flagopts.reinit,
        auto_fill_bitflag |-> FlagMask(flagopts.auto_init),
        apply_flags |-> IF have THEN "None" ELSE IF flagopts.apply # {} THEN "True" ELSE "False",
        apply_bitflags |-> IF have THEN flagopts.apply ELSE {},
        save_bitflag |-> IF have THEN FlagMask(flagopts.save) ELSE {}]

----------------------------------------------------------------------------
(* Tile.load *)

FL_ZERO == {}
FL_PRIOR == {"PRIOR"}
FL_MISSING == {"MISSING"}
FL_INVALID == {"INVALID"}
CZero == <<0, 0>>

\* an array of shape (nrows, nfreq, ncorr) filled with one value
FullCol(nrows, nfreq, ncorr, v) ==
    [r \in 0..(nrows - 1) |-> [f \in 0..(nfreq - 1) |-> [k \in 0..(ncorr - 1) |-> v]]]

\* handler.fetch(column, startrow, nrows) and, with no channel selection, fetchslice
Fetch(column, startrow, nrows) == [r \in 0..(nrows - 1) |-> column[startrow + r]]

\* numpy's reading of an index i into an axis of length n
NpIndex(i, n) == IF i < 0 THEN i + n ELSE i

TileNRows(tile) == tile.last_row - tile.first_row + 1

\* mutant: create replaces a region that exists
CreateNeverRefused(store, name) == FALSE

\* shared_dict.create(name): refused when the region exists
CreateRefused(store, name) == name \in DOMAIN store

\* shared_dict.attach(name): refused when the region does not exist
AttachRefused(store, name) == name \notin DOMAIN store

StorePut(store, name, region) ==
    [n \in (DOMAIN store) \cup {name} |-> IF n = name THEN region ELSE store[n]]

\* flag_arr after FLAG / FLAG_ROW have been applied
FlagsFromFlagColumns(tile, m, o) ==
    LET nrows == TileNRows(tile)
        flagcol == Fetch(m.FLAG, tile.first_row, nrows)
        flagrow == Fetch(m.FLAG_ROW, tile.first_row, nrows)
    IN IF o.apply_flags = "True"
       THEN [r \in 0..(nrows - 1) |-> [f \in 0..(o.nfreq - 1) |-> [k \in 0..(o.ncorr - 1) |->
                IF flagrow[r] \/ flagcol[r][f][k] THEN FL_PRIOR ELSE FL_ZERO]]]
       ELSE FullCol(nrows, o.nfreq, o.ncorr, FL_ZERO)

\* rows = active_row_numbers - first_row; rows = rows[rows<nrows]
ActiveRel(tile, o) ==
    {y \in {x - tile.first_row : x \in o.active_row_numbers} : y < TileNRows(tile)}

\* inactive[rows] = False raises IndexError for an index below -nrows
ActiveIndexError(tile, o) ==
    /\ o.active_subset
    /\ \E x \in ActiveRel(tile, o) : x < -TileNRows(tile)

\* the inactive mask: rows outside the active subset, rows outside the baseline bounds
InactiveRows(tile, m, o) ==
    LET nrows == TileNRows(tile)
        uvw == Fetch(m.UVW, tile.first_row, nrows)
        uv2(r) == uvw[r][1] * uvw[r][1] + uvw[r][2] * uvw[r][2]
        unselected(r) == IF o.active_subset
                         THEN ~\E x \in ActiveRel(tile, o) : NpIndex(x, nrows) = r
                         ELSE FALSE
        cutoff(r) == IF o.min_baseline # 0 \/ o.max_baseline # 0
                     THEN \/ uv2(r) < o.min_baseline * o.min_baseline
                          \/ o.max_baseline # 0 /\ uv2(r) > o.max_baseline * o.max_baseline
                     ELSE FALSE
    IN [r \in 0..(nrows - 1) |-> unselected(r) \/ cutoff(r)]

\* flag_arr[inactive] |= FL.PRIOR
FlagsWithInactive(flag_arr, inactive) ==
    [r \in DOMAIN flag_arr |-> [f \in DOMAIN flag_arr[r] |-> [k \in DOMAIN flag_arr[r][f] |->
        IF inactive[r] THEN flag_arr[r][f][k] \cup FL_PRIOR ELSE flag_arr[r][f][k]]]]

NeedsBitflags(o) == o.apply_bitflags # {} \/ o.save_bitflag # {} \/ o.auto_fill_bitflag # {}

\* fetchslice("BITFLAG", ...) raises when the column holds no cells
BitflagReadable(m) == m.BITFLAG.state = "filled"

\* mutant: an unreadable BITFLAG column is never fatal
BitflagReadFatalNever(m, o) == FALSE

\* the except branch re-raises when auto-fill is not configured
BitflagReadFatal(m, o) ==
    ~o.reinit_bitflags /\ ~BitflagReadable(m) /\ o.auto_fill_bitflag = {}

\* mutant: the synthesized arrays are left zero
AutoFilledZero(flagged, mask) == {}

\* bflagcol[flagcol] = auto-fill mask, on zeros
AutoFilled(flagged, mask) == IF flagged THEN mask ELSE {}

\* self.bflagcol, self.bflagrow and updated[1] once the bitflags are formed
FormBitflags(tile, m, o) ==
    LET nrows == TileNRows(tile)
        flagcol == Fetch(m.FLAG, tile.first_row, nrows)
        flagrow == Fetch(m.FLAG_ROW, tile.first_row, nrows)
        read == ~o.reinit_bitflags /\ BitflagReadable(m)
    IN IF read
       THEN [bflagcol |-> Fetch(m.BITFLAG.cells, tile.first_row, nrows),
             bflagrow |-> Fetch(m.BITFLAG_ROW.cells, tile.first_row, nrows),
             flags_updated |-> FALSE]
       ELSE [bflagcol |-> [r \in 0..(nrows - 1) |-> [f \in 0..(o.nfreq - 1) |->
                              [k \in 0..(o.ncorr - 1) |->
                                  IF o.auto_fill_bitflag # {}
                                  THEN AutoFilled(flagcol[r][f][k], o.auto_fill_bitflag)
                                  ELSE {}]]],
             bflagrow |-> [r \in 0..(nrows - 1) |->
                              IF o.auto_fill_bitflag # {}
                              THEN AutoFilled(flagrow[r], o.auto_fill_bitflag)
                              ELSE {}],
             flags_updated |-> o.auto_fill_bitflag # {}]

\* flag_arr[(bflagcol & apply) != 0] = PRIOR; flag_arr[(bflagrow & apply) != 0, :, :] = PRIOR
FlagsWithBitflags(flag_arr, bf, o) ==
    IF o.apply_bitflags = {} THEN flag_arr
    ELSE [r \in DOMAIN flag_arr |-> [f \in DOMAIN flag_arr[r] |-> [k \in DOMAIN flag_arr[r][f] |->
            IF \/ bf.bflagrow[r] \cap o.apply_bitflags # {}
               \/ bf.bflagcol[r][f][k] \cap o.apply_bitflags # {}
            THEN FL_PRIOR ELSE flag_arr[r][f][k]]]]

\* a value that np.isfinite rejects (inf or nan); every finite value of the model is
\* smaller in magnitude
NonFinite == 1000

IsFiniteReal(x) == -NonFinite < x /\ x < NonFinite

\* np.isfinite of a complex value
IsFinite(z) == IsFiniteReal(z[1]) /\ IsFiniteReal(z[2])

\* complex addition; inf and nan stay non-finite under addition
CAdd(x, y) ==
    [k \in 1..2 |-> IF IsFiniteReal(x[k]) /\ IsFiniteReal(y[k]) THEN x[k] + y[k] ELSE NonFinite]

RECURSIVE SumComponents(_, _, _, _)
\* movis[idir, imod, ...] += model over the additive components of one direction of one
\* model; every component is a visibility column (cluster None)
SumComponents(tile, m, comps, acc) ==
    IF comps = <<>> THEN acc
    ELSE LET model == Fetch(m.MODEL[Head(comps)], tile.first_row, TileNRows(tile))
         IN SumComponents(tile, m, Tail(comps),
                [r \in DOMAIN acc |-> [f \in DOMAIN acc[r] |-> [k \in DOMAIN acc[r][f] |->
                    CAdd(acc[r][f][k], model[r][f][k])]]])

\* data['movis'], of shape (directions, models, rows, freqs, cors); o.models[imod][idir]
\* lists the components of direction idir of model imod, empty when the direction is
\* not in that model
LoadMovis(tile, m, o) ==
    [idir \in 0..(Len(o.model_directions) - 1) |-> [imod \in 0..(Len(o.models) - 1) |->
        SumComponents(tile, m, o.models[imod + 1][idir + 1],
                      FullCol(TileNRows(tile), o.nfreq, o.ncorr, CZero))]]

\* the region as load() has filled it before the flag columns are looked at
RegionStart(tile, m, o) ==
    LET nrows == TileNRows(tile)
    IN [updated |-> <<FALSE, FALSE>>,
        obvis |-> Fetch(m.DATA, tile.first_row, nrows),
        uvwco |-> Fetch(m.UVW, tile.first_row, nrows),
        has_movis |-> o.load_model,
        movis |-> IF o.load_model THEN LoadMovis(tile, m, o) ELSE <<>>,
        covis |-> FullCol(nrows, o.nfreq, o.ncorr, CZero),
        flags |-> FullCol(nrows, o.nfreq, o.ncorr, FL_ZERO),
        has_solutions |-> FALSE,
        solutions |-> <<>>]

\* Tile.load(load_model=o.load_model), with models that are visibility columns and no
\* weights, of a tile whose attributes outside the region are mem:
\* how it ends, the region it leaves and the tile's bflagcol / bflagrow
LoadTile(tile, mem0, m, o, store) ==
    LET name == tile.data_dict_name
        mem == [mem0 EXCEPT !.uvwset = TRUE,
                            !.uvwco = Fetch(m.UVW, tile.first_row, TileNRows(tile))]
        start == RegionStart(tile, m, o)
        flags1 == FlagsFromFlagColumns(tile, m, o)
        flags2 == FlagsWithInactive(flags1, InactiveRows(tile, m, o))
        needflagcol == o.apply_flags = "True" \/ o.auto_fill_bitflag # {}
        bf == FormBitflags(tile, m, o)
    IN IF CreateRefused(store, name)
       THEN [status |-> "error", error |-> "create", store |-> store, mem |-> mem0]
       ELSE IF ActiveIndexError(tile, o)
       THEN [status |-> "error", error |-> "IndexError",
             store |-> StorePut(store, name, [start EXCEPT !.flags = flags1]), mem |-> mem]
       ELSE IF ~NeedsBitflags(o)
       THEN [status |-> "ok", error |-> "none",
             store |-> StorePut(store, name, [start EXCEPT !.flags = flags2, !.has_solutions = TRUE]),
             mem |-> mem]
       ELSE IF ~o.reinit_bitflags /\ ~m.BITFLAG_ROW.present
       THEN [status |-> "error", error |-> "read BITFLAG_ROW",
             store |-> StorePut(store, name, [start EXCEPT !.flags = flags2]), mem |-> mem]
       ELSE IF BitflagReadFatal(m, o)
       THEN [status |-> "error", error |-> "read BITFLAG",
             store |-> StorePut(store, name, [start EXCEPT !.flags = flags2]),
             mem |-> [mem EXCEPT !.rowset = TRUE,
                                 !.bflagrow = Fetch(m.BITFLAG_ROW.cells, tile.first_row, TileNRows(tile))]]
       ELSE IF ~(~o.reinit_bitflags /\ BitflagReadable(m)) /\ ~needflagcol
       THEN [status |-> "error", error |-> "flagcol is None",
             store |-> StorePut(store, name, [start EXCEPT !.flags = flags2]), mem |-> mem]
       ELSE [status |-> "ok", error |-> "none",
             store |-> StorePut(store, name,
                          [start EXCEPT !.flags = FlagsWithBitflags(flags2, bf, o),
                                        !.updated = <<FALSE, bf.flags_updated>>,
                                        !.has_solutions = TRUE]),
             mem |-> [mem EXCEPT !.colset = TRUE, !.bflagcol = bf.bflagcol,
                                 !.rowset = TRUE, !.bflagrow = bf.bflagrow]]

Load(t) ==
    /\ pc = "chunked"
    /\ LET res == LoadTile(tile_list[t], tilemem[t], ms, opts, shared)
       IN /\ shared' = res.store
          /\ tilemem' = [tilemem EXCEPT ![t] = res.mem]
          /\ outcome' = Outcome("load", t, res.status, res.error)
    /\ UNCHANGED <<pc, ms, opts, handler, tile_list, cube, ret, workers, gain_dict, calls>>

----------------------------------------------------------------------------
(* Tile._column_to_cube and Tile._cube_to_column *)

\* corr_slice: the places on the cube's last axis that a row's correlations go to
CorrSlots(ncorr) == IF ncorr = 4 THEN <<0, 1, 2, 3>> ELSE <<0, 3>>

\* column[col_selection] for one row and channel, as written along corr_slice;
\* with one correlation the value is doubled by [..., (0,0)]
ColSel(column, r, f, ncorr) ==
    IF ncorr = 1 THEN <<column[r][f][0], column[r][f][0]>>
    ELSE [i \in 1..ncorr |-> column[r][f][i - 1]]

Conj(z) == <<z[1], -z[2]>>

\* mutant: the mirrored value keeps the order of its correlations
MirrorNoPerm(colsel, ncorr, is_ctype) ==
    IF is_ctype THEN [i \in DOMAIN colsel |-> Conj(colsel[i])] ELSE colsel

\* the value written at the transposed antenna pair: conjugated when dtype is the
\* complex type, and with (0, 2, 1, 3) applied when there are 4 correlations
Mirror(colsel, ncorr, is_ctype) ==
    LET c == IF is_ctype THEN [i \in DOMAIN colsel |-> Conj(colsel[i])] ELSE colsel
    IN IF ncorr = 4 THEN <<c[1], c[3], c[2], c[4]>> ELSE c

\* np.full([t_dim, f_dim, nants, nants, 4], zeroval)
FullCube(t_dim, f_dim, nants, zeroval) ==
    [t \in 0..(t_dim - 1) |-> [f \in 0..(f_dim - 1) |-> [a \in 0..(nants - 1) |->
        [b \in 0..(nants - 1) |-> [k \in 0..3 |-> zeroval]]]]]

\* out[tidx, :, aidx, bidx, corr_slice] = vals: one write per row, in row order, a
\* later row overwriting an earlier one at the same place
CubeAssign(out, tidx, aidx, bidx, slots, vals) ==
    [t \in DOMAIN out |-> [f \in DOMAIN out[t] |-> [a \in DOMAIN out[t][f] |->
        [b \in DOMAIN out[t][f][a] |-> [k \in DOMAIN out[t][f][a][b] |->
            LET hits == {i \in DOMAIN tidx : tidx[i] = t /\ aidx[i] = a /\ bidx[i] = b}
            IN IF hits # {} /\ k \in SeqRange(slots)
               THEN vals[SetMax(hits)][f][IndexOf(slots, k)]
               ELSE out[t][f][a][b][k]]]]]]

\* out_arr[..., range(nants), range(nants), :] = zeroval
DiagonalSet(out, zeroval) ==
    [t \in DOMAIN out |-> [f \in DOMAIN out[t] |-> [a \in DOMAIN out[t][f] |->
        [b \in DOMAIN out[t][f][a] |-> [k \in DOMAIN out[t][f][a][b] |->
            IF a = b THEN zeroval ELSE out[t][f][a][b][k]]]]]]

\* Tile._column_to_cube(column, chunk_tdim, chunk_fdim, rows, slice(freq0, freq0 +
\* chunk_fdim), dtype, zeroval) for a column of shape (rows, freqs, cors)
ColumnToCube(tile, ncorr, nants, column, chunk_tdim, chunk_fdim, rows, freq0, is_ctype, zeroval) ==
    LET achunk == [i \in DOMAIN rows |-> At(tile.antea, rows[i])]
        bchunk == [i \in DOMAIN rows |-> At(tile.anteb, rows[i])]
        traw == [i \in DOMAIN rows |-> At(tile.times, rows[i])]
        tmin == SetMin(SeqRange(traw))
        tchunk == [i \in DOMAIN rows |-> traw[i] - tmin]
        colsel == [i \in DOMAIN rows |-> [f \in 0..(chunk_fdim - 1) |->
                      ColSel(column, rows[i], freq0 + f, ncorr)]]
        mirrored == [i \in DOMAIN rows |-> [f \in 0..(chunk_fdim - 1) |->
                        Mirror(colsel[i][f], ncorr, is_ctype)]]
        out0 == FullCube(chunk_tdim, chunk_fdim, nants, zeroval)
        out1 == CubeAssign(out0, tchunk, achunk, bchunk, CorrSlots(ncorr), colsel)
        out2 == CubeAssign(out1, tchunk, bchunk, achunk, CorrSlots(ncorr), mirrored)
    IN DiagonalSet(out2, zeroval)

\* arr.reshape(list(arr.shape[:-1]) + [2, 2]) on one cell
Reshape22(v) == <<<<v[0], v[1]>>, <<v[2], v[3]>>>>

\* chunk.reshape(... + [2*2]) on one cell
Flatten22(m) == [k \in 0..3 |-> m[(k \div 2) + 1][(k % 2) + 1]]

\* the cube of 2x2 blocks that get_chunk_cubes makes of a visibility cube
CubeOfBlocks(arr) ==
    [t \in DOMAIN arr |-> [f \in DOMAIN arr[t] |-> [a \in DOMAIN arr[t][f] |->
        [b \in DOMAIN arr[t][f][a] |-> Reshape22(arr[t][f][a][b])]]]]

\* Tile._cube_to_column(column, in_arr, rows, slice(freq0, freq1)) with flags=False:
\* the column after the call.  The time index of a row is taken relative to the
\* first row of the chunk, and a negative index counts from the end of the axis.
CubeToColumn(tile, ncorr, column, in_arr, rows, freq0, freq1) ==
    LET achunk == [i \in DOMAIN rows |-> At(tile.antea, rows[i])]
        bchunk == [i \in DOMAIN rows |-> At(tile.anteb, rows[i])]
        traw == [i \in DOMAIN rows |-> At(tile.times, rows[i])]
        tchunk == [i \in DOMAIN rows |-> traw[i] - traw[1]]
        nt == Cardinality(DOMAIN in_arr)
        chunk(i, f) == Flatten22(in_arr[NpIndex(tchunk[i], nt)][f][achunk[i]][bchunk[i]])
    IN [r \in DOMAIN column |-> [f \in DOMAIN column[r] |-> [k \in DOMAIN column[r][f] |->
          IF r \in SeqRange(rows) /\ freq0 <= f /\ f < freq1
          THEN LET flat == chunk(IndexOf(rows, r), f - freq0)
               IN IF ncorr = 4 THEN flat[k]
                  ELSE IF ncorr = 2 THEN flat[3 * k]
                  ELSE flat[0]
          ELSE column[r][f][k]]]]

\* the arguments that get_chunk_cubes / set_chunk_cubes take from chunk entry e
ChunkArgs(tile, e, h) ==
    LET val == tile.chunk_dict[e].val
        rowchunk == tile.rowchunks[val.rowchunk]
    IN [t_dim |-> At(h.chunk_ntimes, rowchunk.tchunk),
        f_dim |-> val.chan1 - val.chan0,
        freq0 |-> val.chan0, freq1 |-> val.chan1,
        rows |-> rowchunk.rows]

\* the _column_to_cube calls of get_chunk_cubes on the chunk of entry e of tile t:
\* on data['obvis'] with the complex type and zeroval 0, and on data['flags']
\* with FL.dtype and zeroval FL.MISSING
ColumnToCubeCall(t, e, kind) ==
    /\ pc = "chunked"
    /\ ~AttachRefused(shared, tile_list[t].data_dict_name)
    /\ LET tile == tile_list[t]
           data == shared[tile.data_dict_name]
           args == ChunkArgs(tile, e, handler)
       IN cube' = [kind |-> kind, tile |-> t, entry |-> e,
                   arr |-> IF kind = "obvis"
                           THEN [vis |-> ColumnToCube(tile, opts.ncorr, opts.nants, data.obvis,
                                             args.t_dim, args.f_dim, args.rows, args.freq0, TRUE, CZero),
                                 mod |-> <<>>, flags |-> <<>>]
                           ELSE [vis |-> <<>>, mod |-> <<>>,
                                 flags |-> ColumnToCube(tile, opts.ncorr, opts.nants, data.flags,
                                             args.t_dim, args.f_dim, args.rows, args.freq0, FALSE, FL_MISSING)]]
    /\ outcome' = Outcome("column_to_cube", t, "ok", "none")
    /\ UNCHANGED <<pc, ms, opts, handler, tile_list, shared, tilemem, ret, workers, gain_dict, calls>>

\* set_chunk_cubes(cube, None, key) with the visibility cube last built for that
\* chunk, reshaped into 2x2 blocks: written into data['covis']
CubeToColumnCall(t) ==
    /\ pc = "chunked"
    /\ cube.kind = "obvis"
    /\ cube.tile = t
    /\ ~AttachRefused(shared, tile_list[t].data_dict_name)
    /\ LET tile == tile_list[t]
           name == tile.data_dict_name
           args == ChunkArgs(tile, cube.entry, handler)
       IN shared' = [shared EXCEPT ![name].updated = <<TRUE, @[2]>>,
                                   ![name].covis = CubeToColumn(tile, opts.ncorr, @,
                                                       CubeOfBlocks(cube.arr.vis),
                                                       args.rows, args.freq0, args.freq1)]
    /\ outcome' = Outcome("cube_to_column", t, "ok", "none")
    /\ UNCHANGED <<pc, ms, opts, handler, tile_list, tilemem, cube, ret, workers, gain_dict, calls>>

----------------------------------------------------------------------------
(* Tile.get_chunk_cubes, set_chunk_cubes, create_solutions_chunk_dict, save, release *)

\* mutant: the reduction is over the four places whatever the correlation count
ReduceFlagsAllPlaces(flags5, ncorr) ==
    [t \in DOMAIN flags5 |-> [f \in DOMAIN flags5[t] |-> [a \in DOMAIN flags5[t][f] |->
        [b \in DOMAIN flags5[t][f][a] |-> UNION {flags5[t][f][a][b][k] : k \in 0..3}]]]]

\* np.bitwise_or.reduce over the last axis of the flag cube: over its four places with
\* 4 correlations, over places 0 and 3 (flags[..., ::3]) otherwise
ReduceFlags(flags5, ncorr) ==
    [t \in DOMAIN flags5 |-> [f \in DOMAIN flags5[t] |-> [a \in DOMAIN flags5[t][f] |->
        [b \in DOMAIN flags5[t][f][a] |->
            IF ncorr = 4 THEN UNION {flags5[t][f][a][b][k] : k \in 0..3}
            ELSE flags5[t][f][a][b][0] \cup flags5[t][f][a][b][3]]]]]

\* (~np.isfinite(arr)).any(axis=(-2, -1)) at one place of a cube of 2x2 blocks
AnyNonFinite(block) == \E i \in 1..2, j \in 1..2 : ~IsFinite(block[i][j])

ZeroBlock == <<<<CZero, CZero>>, <<CZero, CZero>>>>

\* flags[(~np.isfinite(arr)).any(axis=(-2, -1))] |= FL.INVALID
OrInvalid(flags, arr) ==
    [t \in DOMAIN flags |-> [f \in DOMAIN flags[t] |-> [a \in DOMAIN flags[t][f] |->
        [b \in DOMAIN flags[t][f][a] |->
            IF AnyNonFinite(arr[t][f][a][b]) THEN flags[t][f][a][b] \cup FL_INVALID
            ELSE flags[t][f][a][b]]]]]

\* arr[flagged, :, :] = 0
ZeroFlagged(arr, flags) ==
    [t \in DOMAIN arr |-> [f \in DOMAIN arr[t] |-> [a \in DOMAIN arr[t][f] |->
        [b \in DOMAIN arr[t][f][a] |->
            IF flags[t][f][a][b] # FL_ZERO THEN ZeroBlock ELSE arr[t][f][a][b]]]]]

\* what get_chunk_cubes returns for the chunk with arguments args, from the region
\* data: obs_arr, mod_arr (None when the region has no 'movis') and flags.  The region
\* has no 'weigh', so wgt_arr is None.
GetChunkCubes(tile, data, args, o) ==
    LET cubeof(column, is_ctype, zeroval) ==
            ColumnToCube(tile, o.ncorr, o.nants, column, args.t_dim, args.f_dim,
                         args.rows, args.freq0, is_ctype, zeroval)
        flags0 == ReduceFlags(cubeof(data.flags, FALSE, FL_MISSING), o.ncorr)
        obs0 == CubeOfBlocks(cubeof(data.obvis, TRUE, CZero))
        mod0 == [d \in DOMAIN data.movis |-> [m \in DOMAIN data.movis[d] |->
                    CubeOfBlocks(cubeof(data.movis[d][m], TRUE, CZero))]]
        flags1 == IF data.has_movis THEN OrInvalid(flags0, mod0[0][0]) ELSE flags0
        flags2 == OrInvalid(flags1, obs0)
    IN [obs_arr |-> ZeroFlagged(obs0, flags2),
        has_mod |-> data.has_movis,
        mod_arr |-> IF data.has_movis
                    THEN [d \in DOMAIN mod0 |-> [m \in DOMAIN mod0[d] |->
                            IF d = 0 /\ m = 0 THEN ZeroFlagged(mod0[d][m], flags2)
                            ELSE mod0[d][m]]]
                    ELSE <<>>,
        flags |-> flags2]

\* Tile._cube_to_column(column, in_arr, rows, slice(freq0, freq1), flags=True): the
\* flag of a place of the cube goes to every correlation of the row
CubeToColumnFlags(tile, column, in_arr, rows, freq0, freq1) ==
    LET achunk == [i \in DOMAIN rows |-> At(tile.antea, rows[i])]
        bchunk == [i \in DOMAIN rows |-> At(tile.anteb, rows[i])]
        traw == [i \in DOMAIN rows |-> At(tile.times, rows[i])]
        tchunk == [i \in DOMAIN rows |-> traw[i] - traw[1]]
        nt == Cardinality(DOMAIN in_arr)
    IN [r \in DOMAIN column |-> [f \in DOMAIN column[r] |-> [k \in DOMAIN column[r][f] |->
          IF r \in SeqRange(rows) /\ freq0 <= f /\ f < freq1
          THEN LET i == IndexOf(rows, r)
               IN in_arr[NpIndex(tchunk[i], nt)][f - freq0][achunk[i]][bchunk[i]]
          ELSE column[r][f][k]]]]

\* an argument that may be None
PyNone == [given |-> FALSE, arr |-> <<>>]
PySome(arr) == [given |-> TRUE, arr |-> arr]

\* mutant: writing a cube clears the cells of covis outside the chunk
SetChunkCubesClearsRest(tile, data, args, o, cube_in, flag_cube) ==
    LET written == CubeToColumn(tile, o.ncorr, data.covis, cube_in.arr,
                                args.rows, args.freq0, args.freq1)
        data1 == IF cube_in.given
                 THEN [data EXCEPT !.updated = <<TRUE, @[2]>>,
                                   !.covis = [r \in DOMAIN written |-> [f \in DOMAIN written[r] |->
                                                [k \in DOMAIN written[r][f] |->
                                                   IF r \in SeqRange(args.rows) /\ args.freq0 <= f /\ f < args.freq1
                                                   THEN written[r][f][k] ELSE CZero]]]]
                 ELSE data
    IN IF flag_cube.given
       THEN [data1 EXCEPT !.updated = <<@[1], TRUE>>,
                          !.flags = CubeToColumnFlags(tile, @, flag_cube.arr,
                                                      args.rows, args.freq0, args.freq1)]
       ELSE data1

\* the region after set_chunk_cubes(cube, flag_cube, key) with column 'covis'
SetChunkCubes(tile, data, args, o, cube_in, flag_cube) ==
    LET data1 == IF cube_in.given
                 THEN [data EXCEPT !.updated = <<TRUE, @[2]>>,
                                   !.covis = CubeToColumn(tile, o.ncorr, @, cube_in.arr,
                                                          args.rows, args.freq0, args.freq1)]
                 ELSE data
    IN IF flag_cube.given
       THEN [data1 EXCEPT !.updated = <<@[1], TRUE>>,
                          !.flags = CubeToColumnFlags(tile, @, flag_cube.arr,
                                                      args.rows, args.freq0, args.freq1)]
       ELSE data1

\* putslice / putcol(column, arr, startrow, nrows)
PutRows(column, arr, startrow, nrows) ==
    [r \in DOMAIN column |->
        IF startrow <= r /\ r < startrow + nrows THEN arr[r - startrow] ELSE column[r]]

\* self.bflagcol[(data['flags'] & ~FL.PRIOR) != 0] |= self.handler._save_bitflag
RaiseSaveBit(bflagcol, flags, save_bitflag) ==
    [r \in DOMAIN bflagcol |-> [f \in DOMAIN bflagcol[r] |-> [k \in DOMAIN bflagcol[r][f] |->
        IF flags[r][f][k] \ FL_PRIOR # {} THEN bflagcol[r][f][k] \cup save_bitflag
        ELSE bflagcol[r][f][k]]]]

\* np.bitwise_and.reduce(bflagcol, axis=(-1, -2)) for one row
AndReduce(row) ==
    {b \in UNION {row[f][k] : f \in DOMAIN row, k \in DOMAIN row[0]} :
        \A f \in DOMAIN row : \A k \in DOMAIN row[f] : b \in row[f][k]}

\* mutant: the output column is written whether or not the data were updated
SaveWritesDataAlways(data, o) == o.output_column # "None"

\* if self.handler.output_column and data['updated'][0]
SaveWritesData(data, o) == o.output_column # "None" /\ data.updated[1]

\* if self.handler._save_bitflag and data['updated'][1]
SaveWritesFlags(data, o) == o.save_bitflag # {} /\ data.updated[2]

\* Tile.save(unlock=False): the data set and the tile's bflagcol / bflagrow after it.
\* The BITFLAG column counts as filled once all of its rows have been written or when
\* it was filled before.
SaveTile(tile, mem, m, o, store) ==
    LET name == tile.data_dict_name
        nrows == TileNRows(tile)
        data == store[name]
        m1 == IF SaveWritesData(data, o)
              THEN [m EXCEPT !.OUTPUT = [present |-> TRUE,
                                         cells |-> PutRows(@.cells, data.covis, tile.first_row, nrows)]]
              ELSE m
        bflagcol == RaiseSaveBit(mem.bflagcol, data.flags, o.save_bitflag)
        bflagrow == [r \in DOMAIN bflagcol |-> AndReduce(bflagcol[r])]
        flag_col == [r \in DOMAIN bflagcol |-> [f \in DOMAIN bflagcol[r] |->
                        [k \in DOMAIN bflagcol[r][f] |-> bflagcol[r][f][k] # {}]]]
        flag_row == [r \in DOMAIN flag_col |->
                        \A f \in DOMAIN flag_col[r] : \A k \in DOMAIN flag_col[r][f] : flag_col[r][f][k]]
        whole == tile.first_row = 0 /\ nrows = Cardinality(DOMAIN m.BITFLAG.cells)
        m2 == [m1 EXCEPT !.BITFLAG = [state |-> IF whole THEN "filled" ELSE @.state,
                                      cells |-> PutRows(@.cells, bflagcol, tile.first_row, nrows)],
                         !.BITFLAG_ROW.cells = PutRows(@, bflagrow, tile.first_row, nrows),
                         !.FLAG = PutRows(@, flag_col, tile.first_row, nrows),
                         !.FLAG_ROW = PutRows(@, flag_row, tile.first_row, nrows)]
    IN IF AttachRefused(store, name)
       THEN [status |-> "error", error |-> "attach", ms |-> m, mem |-> mem]
       ELSE IF ~SaveWritesFlags(data, o)
       THEN [status |-> "ok", error |-> "none", ms |-> m1, mem |-> mem]
       ELSE IF ~mem.colset
       THEN [status |-> "error", error |-> "bflagcol is None", ms |-> m1, mem |-> mem]
       ELSE [status |-> "ok", error |-> "none", ms |-> m2,
             mem |-> [mem EXCEPT !.bflagcol = bflagcol, !.rowset = TRUE, !.bflagrow = bflagrow]]

\* data.delete(): the store without the region
StoreDelete(store, name) == [n \in (DOMAIN store) \ {name} |-> store[n]]

\* mutant: release() attaches and leaves the region in place
ReleaseTileNoDelete(tile, store) ==
    IF AttachRefused(store, tile.data_dict_name)
    THEN [status |-> "error", error |-> "attach", store |-> store]
    ELSE [status |-> "ok", error |-> "none", store |-> store]

\* Tile.release(): attach, then delete
ReleaseTile(tile, store) ==
    IF AttachRefused(store, tile.data_dict_name)
    THEN [status |-> "error", error |-> "attach", store |-> store]
    ELSE [status |-> "ok", error |-> "none", store |-> StoreDelete(store, tile.data_dict_name)]

\* get_chunk_cubes(key) for the key of chunk entry e of tile t
GetChunkCubesCall(t, e) ==
    /\ pc = "chunked"
    /\ LET tile == tile_list[t]
           name == tile.data_dict_name
       IN IF AttachRefused(shared, name)
          THEN /\ outcome' = Outcome("get_chunk_cubes", t, "error", "attach")
               /\ UNCHANGED cube
          ELSE LET res == GetChunkCubes(tile, shared[name], ChunkArgs(tile, e, handler), opts)
               IN /\ cube' = [kind |-> "chunk", tile |-> t, entry |-> e,
                              arr |-> [vis |-> res.obs_arr, mod |-> res.mod_arr,
                                       flags |-> res.flags]]
                  /\ outcome' = Outcome("get_chunk_cubes", t, "ok", "none")
    /\ UNCHANGED <<pc, ms, opts, handler, tile_list, shared, tilemem, ret, workers, gain_dict, calls>>

\* the cubes a solver hands back for the chunk it last got: the data cube as the
\* corrected cube or None, and the flag cube or None
SolverCubes(c) == {PyNone, PySome(c.arr.vis)} \X {PyNone, PySome(c.arr.flags)}

\* set_chunk_cubes(cube, flag_cube, key) with the cubes of a solver, for the chunk
\* last got; the outcome records which of the two were given
SetChunkCubesCall(t) ==
    /\ pc = "chunked"
    /\ cube.kind = "chunk"
    /\ cube.tile = t
    /\ LET tile == tile_list[t]
           name == tile.data_dict_name
       IN \E cubes \in SolverCubes(cube) :
            IF AttachRefused(shared, name)
            THEN /\ outcome' = Outcome("set_chunk_cubes", t, "error", "attach")
                 /\ UNCHANGED shared
            ELSE /\ shared' = [shared EXCEPT ![name] =
                                  SetChunkCubes(tile, @, ChunkArgs(tile, cube.entry, handler),
                                                opts, cubes[1], cubes[2])]
                 /\ outcome' = Outcome("set_chunk_cubes", t, "ok",
                                       IF cubes[1].given
                                       THEN (IF cubes[2].given THEN "cube, flag_cube" ELSE "cube")
                                       ELSE (IF cubes[2].given THEN "flag_cube" ELSE "none"))
    /\ UNCHANGED <<pc, ms, opts, handler, tile_list, tilemem, cube, ret, workers, gain_dict, calls>>

\* create_solutions_chunk_dict(key): data['solutions'].addSubdict(key)
CreateSolutionsChunkDict(t, e) ==
    /\ pc = "chunked"
    /\ LET tile == tile_list[t]
           name == tile.data_dict_name
           key == tile.chunk_dict[e].key
       IN IF AttachRefused(shared, name)
          THEN /\ outcome' = Outcome("create_solutions_chunk_dict", t, "error", "attach")
               /\ UNCHANGED shared
          ELSE IF ~shared[name].has_solutions
          THEN /\ outcome' = Outcome("create_solutions_chunk_dict", t, "error", "KeyError")
               /\ UNCHANGED shared
          ELSE /\ shared' = [shared EXCEPT ![name].solutions =
                                IF key \in SeqRange(@) THEN @ ELSE Append(@, key)]
               /\ outcome' = Outcome("create_solutions_chunk_dict", t, "ok", "none")
    /\ UNCHANGED <<pc, ms, opts, handler, tile_list, tilemem, cube, ret, workers, gain_dict, calls>>

Save(t) ==
    /\ pc = "chunked"
    /\ LET res == SaveTile(tile_list[t], tilemem[t], ms, opts, shared)
       IN /\ ms' = res.ms
          /\ tilemem' = [tilemem EXCEPT ![t] = res.mem]
          /\ outcome' = Outcome("save", t, res.status, res.error)
    /\ UNCHANGED <<pc, opts, handler, tile_list, shared, cube, ret, workers, gain_dict, calls>>

Release(t) ==
    /\ pc = "chunked"
    /\ LET res == ReleaseTile(tile_list[t], shared)
       IN /\ shared' = res.store
          /\ outcome' = Outcome("release", t, res.status, res.error)
    /\ UNCHANGED <<pc, ms, opts, handler, tile_list, tilemem, cube, ret, workers, gain_dict, calls>>

----------------------------------------------------------------------------
(* set_chunk_cubes in worker processes, statement by statement *)

NoWorkers == [tile |-> 0, before |-> <<>>, procs |-> <<>>]

\* mutant: the worker writes the cube into the covis it saw when it started
WorkerWriteCovisStale(tile, data, before, args, o, cube_in) ==
    [data EXCEPT !.covis = CubeToColumn(tile, o.ncorr, before.covis, cube_in.arr,
                                        args.rows, args.freq0, args.freq1)]

\* self._cube_to_column(data[column], cube, rows, freq_slice) on the shared array
WorkerWriteCovis(tile, data, before, args, o, cube_in) ==
    [data EXCEPT !.covis = CubeToColumn(tile, o.ncorr, @, cube_in.arr,
                                        args.rows, args.freq0, args.freq1)]

\* self._cube_to_column(data['flags'], flag_cube, rows, freq_slice, flags=True)
WorkerWriteFlags(tile, data, args, flag_cube) ==
    [data EXCEPT !.flags = CubeToColumnFlags(tile, @, flag_cube.arr,
                                             args.rows, args.freq0, args.freq1)]

\* what a solver would hand back for chunk entry e of a tile, from the cubes that
\* get_chunk_cubes makes of the region
SolverCubesOf(tile, data, e, h, o) ==
    LET res == GetChunkCubes(tile, data, ChunkArgs(tile, e, h), o)
    IN SolverCubes([arr |-> [vis |-> res.obs_arr, flags |-> res.flags]])

\* two workers are each given a chunk of tile t, the two keys distinct, and the cubes
\* to set
Dispatch(t) ==
    /\ pc = "chunked"
    /\ workers.tile = 0
    /\ ~AttachRefused(shared, tile_list[t].data_dict_name)
    /\ LET tile == tile_list[t]
           data == shared[tile.data_dict_name]
       IN \E e1 \in DOMAIN tile.chunk_dict, e2 \in DOMAIN tile.chunk_dict :
            /\ e1 < e2
            /\ \E c1 \in SolverCubesOf(tile, data, e1, handler, opts),
                  c2 \in SolverCubesOf(tile, data, e2, handler, opts) :
                 workers' = [tile |-> t, before |-> data,
                             procs |-> <<[entry |-> e1, cube_in |-> c1[1], flag_cube |-> c1[2], pc |-> "attach"],
                                         [entry |-> e2, cube_in |-> c2[1], flag_cube |-> c2[2], pc |-> "attach"]>>]
    /\ outcome' = Outcome("dispatch", t, "ok", "none")
    /\ UNCHANGED <<pc, ms, opts, handler, tile_list, shared, tilemem, cube, ret, gain_dict, calls>>

\* one statement of set_chunk_cubes in worker i
WorkerStep(i) ==
    /\ workers.tile # 0
    /\ i \in DOMAIN workers.procs
    /\ LET w == workers.procs[i]
           tile == tile_list[workers.tile]
           name == tile.data_dict_name
           args == ChunkArgs(tile, w.entry, handler)
           goto(l) == workers' = [workers EXCEPT !.procs[i].pc = l]
       IN \/ /\ w.pc = "attach"
             /\ ~AttachRefused(shared, name)
             /\ goto("cube")
             /\ UNCHANGED shared
          \/ /\ w.pc = "cube"
             /\ IF w.cube_in.given
                THEN /\ shared' = [shared EXCEPT ![name].updated = <<TRUE, @[2]>>]
                     /\ goto("covis")
                ELSE /\ UNCHANGED shared
                     /\ goto("flag_cube")
          \/ /\ w.pc = "covis"
             /\ shared' = [shared EXCEPT ![name] =
                              WorkerWriteCovis(tile, @, workers.before, args, opts, w.cube_in)]
             /\ goto("flag_cube")
          \/ /\ w.pc = "flag_cube"
             /\ IF w.flag_cube.given
                THEN /\ shared' = [shared EXCEPT ![name].updated = <<@[1], TRUE>>]
                     /\ goto("flags")
                ELSE /\ UNCHANGED shared
                     /\ goto("done")
          \/ /\ w.pc = "flags"
             /\ shared' = [shared EXCEPT ![name] = WorkerWriteFlags(tile, @, args, w.flag_cube)]
             /\ goto("done")
    /\ outcome' = Outcome("set_chunk_cubes", workers.tile, "ok", "worker")
    /\ UNCHANGED <<pc, ms, opts, handler, tile_list, tilemem, cube, ret, gain_dict, calls>>

----------------------------------------------------------------------------
(* Tile.prep_for_montblanc and Tile.unprep_for_montblanc *)

\* Python values of different types, for == and != between them
PyInt(n) == [type |-> "int", val |-> n]
PyTuple(t) == [type |-> "tuple", val |-> t]
PyNe(x, y) == ~(x.type = y.type /\ x.val = y.val)

\* np.shape of a one-dimensional array
NpShape(arr) == PyTuple(<<Len(arr)>>)

\* np.concatenate((arr, more)) for an array indexed from 0 and a list
NpConcat(arr, more) ==
    LET n == Cardinality(DOMAIN arr)
    IN [i \in 0..(n + Len(more) - 1) |-> IF i < n THEN arr[i] ELSE more[i - n + 1]]

RECURSIVE FlattenSeq(_)
\* the list built by successive extend() calls
FlattenSeq(seqs) == IF seqs = <<>> THEN <<>> ELSE Head(seqs) \o FlattenSeq(Tail(seqs))

\* n_bl = nants*(nants - 1)/2
NBl(nants) == (nants * (nants - 1)) \div 2

\* [(a,b) for a in xrange(nants) for b in xrange(nants) if b>a], as a set
BaselineSet(nants) == {bl \in (0..(nants - 1)) \X (0..(nants - 1)) : bl[2] > bl[1]}

\* the (ddid, t) pairs of the double loop, in loop order
PrepSlots(tile) ==
    LET uniq == SortSet(SeqRange(tile.time_col))
    IN [j \in 1..(Len(tile.ddids) * Len(uniq)) |->
          <<tile.ddids[((j - 1) \div Len(uniq)) + 1], uniq[((j - 1) % Len(uniq)) + 1]>>]

\* t_sel: the rows of one (ddid, t) pair
SlotRows(tile, slot) ==
    {i \in DOMAIN tile.time_col : tile.time_col[i] = slot[2] /\ tile.ddid_col[i] = slot[1]}

\* set(baselines) - set(zip(antea[t_sel], anteb[t_sel])), listed in the iteration
\* order ord of the set
SlotMissingBl(tile, slot, nants, ord) ==
    LET have == {<<tile.antea[i], tile.anteb[i]>> : i \in SlotRows(tile, slot)}
    IN SelectSeq(ord, LAMBDA bl : bl \in BaselineSet(nants) \ have)

\* [x]*(n_bl - t_sel[0].size): empty when the count is not positive
SlotRepeat(tile, slot, nants, x) ==
    LET k == NBl(nants) - Cardinality(SlotRows(tile, slot))
    IN [i \in 1..(IF k > 0 THEN k ELSE 0) |-> x]

\* row_identifiers
RowIdentifiers(tile, nants) ==
    LET ntime == Cardinality(SeqRange(tile.time_col))
        tmin == SetMin(SeqRange(tile.times))
    IN [i \in DOMAIN tile.antea |->
          (IndexOf(tile.ddids, tile.ddid_col[i]) - 1) * NBl(nants) * ntime
          + (tile.times[i] - tmin) * NBl(nants)
          + ((tile.antea[i] * (2 * nants - 3 - tile.antea[i])) \div 2) + tile.anteb[i] - 1]

\* row i sorts before row j under np.lexsort((anteb, antea, time_col, ddid_col)):
\* by ddid, then time, then antea, then anteb, equal rows in index order
LexBefore(tile, i, j) ==
    LET ki == <<tile.ddid_col[i], tile.time_col[i], tile.antea[i], tile.anteb[i], i>>
        kj == <<tile.ddid_col[j], tile.time_col[j], tile.antea[j], tile.anteb[j], j>>
    IN \E p \in 1..5 : ki[p] < kj[p] /\ \A q \in 1..(p - 1) : ki[q] = kj[q]

\* np.lexsort(...): the 0-based row numbers in sorted order
LexSort(tile) ==
    LET n == Len(tile.antea)
        rank(i) == Cardinality({j \in 1..n : LexBefore(tile, j, i)})
    IN [p \in 1..n |-> (CHOOSE i \in 1..n : rank(i) = p - 1) - 1]

\* np.lexsort raises ValueError when its keys differ in length
LexSortRaises(tile) ==
    ~(Len(tile.anteb) = Len(tile.antea) /\ Len(tile.antea) = Len(tile.time_col)
      /\ Len(tile.time_col) = Len(tile.ddid_col))

\* sorted_ind[np.where(antea != anteb)]: the entries of sorted_ind at the positions
\* of the rows whose antennas differ
TakeCrossPositions(tile, sorted_ind) ==
    LET pos == SelectSeq([i \in DOMAIN tile.antea |-> i],
                         LAMBDA i : tile.antea[i] # tile.anteb[i])
    IN [k \in DOMAIN pos |-> sorted_ind[pos[k]]]

\* prep_for_montblanc on a loaded tile: how it ends, what it returns, and the tile's
\* attributes afterwards.  ord is the order in which Python iterates a set of baselines.
PrepForMontblanc(tile, mem, nants, ord) ==
    LET n_bl == NBl(nants)
        ntime == Cardinality(SeqRange(tile.time_col))
        nrows == TileNRows(tile)
        expected_nrows == n_bl * ntime * Len(tile.ddids)
        row_identifiers == RowIdentifiers(tile, nants)
        slots == PrepSlots(tile)
        missing_bl == FlattenSeq([j \in DOMAIN slots |-> SlotMissingBl(tile, slots[j], nants, ord)])
        missing_t == FlattenSeq([j \in DOMAIN slots |-> SlotRepeat(tile, slots[j], nants, slots[j][2])])
        missing_ddids == FlattenSeq([j \in DOMAIN slots |-> SlotRepeat(tile, slots[j], nants, slots[j][1])])
        missing_uvw == [i \in 1..(expected_nrows - nrows) |-> <<0, 0, 0>>]
        padtile == [tile EXCEPT !.antea = @ \o [k \in DOMAIN missing_bl |-> missing_bl[k][1]],
                                !.anteb = @ \o [k \in DOMAIN missing_bl |-> missing_bl[k][2]],
                                !.time_col = @ \o missing_t,
                                !.ddid_col = @ \o missing_ddids]
        padmem == [mem EXCEPT !.uvwco = NpConcat(@, missing_uvw), !.padded = "yes"]
        res(status, error, tl, mm, ind) ==
            [status |-> status, error |-> error, tile |-> tl, mem |-> mm,
             expected_nrows |-> expected_nrows, sorted_ind |-> ind,
             row_identifiers |-> row_identifiers]
    IN IF nrows = expected_nrows
       THEN res("ok", "none", tile, [mem EXCEPT !.padded = "yes"], LexSort(tile))
       ELSE IF nrows < expected_nrows
       THEN IF LexSortRaises(padtile)
            THEN res("error", "ValueError lexsort", padtile, [padmem EXCEPT !.padded = "failed"], <<>>)
            ELSE res("ok", "none", padtile, padmem, LexSort(padtile))
       ELSE LET sorted_ind == TakeCrossPositions(tile, LexSort(tile))
            IN IF PyNe(NpShape(sorted_ind), PyInt(expected_nrows))
               THEN res("error", "ValueError rows", tile, [mem EXCEPT !.padded = "failed"], sorted_ind)
               ELSE res("ok", "none", tile, [mem EXCEPT !.padded = "yes"], sorted_ind)

\* unprep_for_montblanc(nrows)
UnprepForMontblanc(tile, mem, nrows) ==
    [tile |-> [tile EXCEPT !.antea = Slice(@, 0, Min2(nrows, Len(@))),
                           !.anteb = Slice(@, 0, Min2(nrows, Len(@))),
                           !.time_col = Slice(@, 0, Min2(nrows, Len(@))),
                           !.ddid_col = Slice(@, 0, Min2(nrows, Len(@)))],
     mem |-> [mem EXCEPT !.uvwco = [i \in 0..(Min2(nrows, Cardinality(DOMAIN @)) - 1) |-> @[i]],
                         !.padded = "no"]]

\* the prep_for_montblanc call that load() makes before the first model is computed
PrepCall(t) ==
    /\ pc = "chunked"
    /\ tilemem[t].uvwset
    /\ tilemem[t].padded = "no"
    /\ \E ord \in Orderings(BaselineSet(opts.nants)) :
          LET res == PrepForMontblanc(tile_list[t], tilemem[t], opts.nants, ord)
          IN /\ tile_list' = [tile_list EXCEPT ![t] = res.tile]
             /\ tilemem' = [tilemem EXCEPT ![t] = res.mem]
             /\ ret' = [tile |-> t, expected_nrows |-> res.expected_nrows,
                        sorted_ind |-> res.sorted_ind, row_identifiers |-> res.row_identifiers]
             /\ outcome' = Outcome("prep_for_montblanc", t, res.status, res.error)
    /\ UNCHANGED <<pc, ms, opts, handler, shared, cube, workers, gain_dict, calls>>

\* the unprep_for_montblanc(nrows) call that load() makes after the models are computed
UnprepCall(t) ==
    /\ pc = "chunked"
    /\ tilemem[t].padded = "yes"
    /\ LET res == UnprepForMontblanc(tile_list[t], tilemem[t], TileNRows(tile_list[t]))
       IN /\ tile_list' = [tile_list EXCEPT ![t] = res.tile]
          /\ tilemem' = [tilemem EXCEPT ![t] = res.mem]
    /\ outcome' = Outcome("unprep_for_montblanc", t, "ok", "none")
    /\ UNCHANGED <<pc, ms, opts, handler, shared, cube, ret, workers, gain_dict, calls>>

----------------------------------------------------------------------------
(* The partitioning runs: any row order, any TIME and DDID per row *)

NoHandler == [chunk_find |-> <<>>]
NoRet == [tile |-> 0, expected_nrows |-> 0, sorted_ind |-> <<>>, row_identifiers |-> <<>>]
NoCube == [kind |-> "none", tile |-> 0, entry |-> 0,
           arr |-> [vis |-> <<>>, mod |-> <<>>, flags |-> <<>>]]

ChunkRowSet == [time : Timestamps, ddid : SeqRange(DDIDs)]

InitChunk ==
    /\ pc = "constructed"
    /\ \E n \in 1..MaxRows : \E rows \in [1..n -> ChunkRowSet] :
          ms = [time_col |-> [i \in 1..n |-> rows[i].time],
                ddid_col |-> [i \in 1..n |-> rows[i].ddid],
                antea |-> [i \in 1..n |-> 0],
                anteb |-> [i \in 1..n |-> 1]]
    /\ \E tdim \in TDims, fs \in FreqShapes, mc \in MinChunks :
          opts = [tdim |-> tdim, nfreq |-> fs[1], fdim |-> fs[2],
                  min_chunks_per_tile |-> mc, ddids |-> DDIDs]
    /\ handler = NoHandler
    /\ tile_list = <<>>
    /\ shared = <<>>
    /\ tilemem = <<>>
    /\ cube = NoCube
    /\ ret = NoRet
    /\ workers = NoWorkers
    /\ gain_dict = <<>>
    /\ calls = <<>>
    /\ outcome = Outcome("none", 0, "ok", "none")

NextChunk == DefineChunk

SpecChunk == InitChunk /\ [][NextChunk]_vars

----------------------------------------------------------------------------
(* The load runs: one baseline observed at successive times, any FLAG and   *)
(* FLAG_ROW, a BITFLAG column absent, unfilled or filled, any flag options  *)

\* the visibility in DATA at row r, channel f, correlation k: all different
DataVal(r, f, k) == <<100 * (r + 1) + 10 * f + k, r + 1>>

BitflagNames == {"legacy", "cubical"}

FlagOpts == [reinit : BOOLEAN, apply : {{}, {"legacy"}},
             save : {"None", "cubical"}, auto_init : {"None", "legacy"}]

\* what a BITFLAG column of the data set may hold before the run
BitflagColumns(n, nfreq, ncorr, flag) ==
    {[state |-> "absent", cells |-> FullCol(n, nfreq, ncorr, {})],
     [state |-> "unfilled", cells |-> FullCol(n, nfreq, ncorr, {})],
     [state |-> "filled", cells |-> FullCol(n, nfreq, ncorr, {})],
     [state |-> "filled", cells |-> FullCol(n, nfreq, ncorr, {"cubical"})],
     [state |-> "filled",
      cells |-> [r \in 0..(n - 1) |-> [f \in 0..(nfreq - 1) |-> [k \in 0..(ncorr - 1) |->
                    IF flag[r][f][k] THEN {"legacy"} ELSE {}]]]]}

\* BITFLAG_ROW beside a BITFLAG column: the bits raised in all cells of the row
BitflagRowOf(n, nfreq, ncorr, column) ==
    [present |-> column.state # "absent",
     cells |-> [r \in 0..(n - 1) |->
                  IF column.state # "filled" THEN {}
                  ELSE {b \in BitflagNames :
                          \A f \in 0..(nfreq - 1), k \in 0..(ncorr - 1) : b \in column.cells[r][f][k]}]]

InitLoad ==
    /\ pc = "constructed"
    /\ \E n \in 1..MaxLoadRows :
       \E flag \in [0..(n - 1) -> [0..0 -> [0..0 -> BOOLEAN]]], flagrow \in [0..(n - 1) -> BOOLEAN] :
       \E bitflag \in BitflagColumns(n, 1, 1, flag), fo \in FlagOpts, tdim \in TDims :
          LET cfg == FlagSetup(bitflag, fo) IN
          /\ cfg.constructed
          /\ ms = [time_col |-> [i \in 1..n |-> 10 * i],
                   ddid_col |-> [i \in 1..n |-> 0],
                   antea |-> [i \in 1..n |-> 0],
                   anteb |-> [i \in 1..n |-> 1],
                   DATA |-> [r \in 0..(n - 1) |-> [f \in 0..0 |-> [k \in 0..0 |-> DataVal(r, f, k)]]],
                   UVW |-> [r \in 0..(n - 1) |-> <<r + 1, 0, 0>>],
                   FLAG |-> flag,
                   FLAG_ROW |-> flagrow,
                   BITFLAG |-> cfg.BITFLAG,
                   BITFLAG_ROW |-> BitflagRowOf(n, 1, 1, cfg.BITFLAG)]
          /\ opts = [tdim |-> tdim, nfreq |-> 1, fdim |-> 1, min_chunks_per_tile |-> 1,
                     ddids |-> <<0>>, ncorr |-> 1, nants |-> 2,
                     reinit_bitflags |-> cfg.reinit_bitflags,
                     auto_fill_bitflag |-> cfg.auto_fill_bitflag,
                     apply_flags |-> cfg.apply_flags,
                     apply_bitflags |-> cfg.apply_bitflags,
                     save_bitflag |-> cfg.save_bitflag,
                     active_subset |-> FALSE, active_row_numbers |-> {},
                     min_baseline |-> 0, max_baseline |-> 0,
                     load_model |-> FALSE]
    /\ handler = NoHandler
    /\ tile_list = <<>>
    /\ shared = <<>>
    /\ tilemem = <<>>
    /\ cube = NoCube
    /\ ret = NoRet
    /\ workers = NoWorkers
    /\ gain_dict = <<>>
    /\ calls = <<>>
    /\ outcome = Outcome("none", 0, "ok", "none")

NextLoad ==
    \/ DefineChunk
    \/ \E t \in DOMAIN tile_list : Load(t)

SpecLoad == InitLoad /\ [][NextLoad]_vars

----------------------------------------------------------------------------
(* The cube runs: rows of distinct (TIME, antenna pair) with ANTENNA1 <=    *)
(* ANTENNA2 in any row order, 1, 2 or 4 correlations, two channels cut into *)
(* two frequency chunks, FLAG applied to the flags column                   *)

Antennas == {0, 1, 2}
CubeTimes == {10, 20}
NCorrs == {1, 2, 4}

\* the antenna pairs observed: two baselines and one autocorrelation
CubePairs == {<<0, 1>>, <<1, 2>>, <<1, 1>>}

CubeRowSet == {r \in [time : CubeTimes, a : Antennas, b : Antennas] : <<r.a, r.b>> \in CubePairs}

\* the FLAG column of the cube runs: set on every other cell
FlagVal(r, f, k) == (r + f + k) % 2 = 1

\* the FLAG column by the name of its pattern: on every other cell, on the first
\* correlation of the first channel, on the last correlation of the first row
CubeFlagVal(p, r, f, k, ncorr) ==
    CASE p = "alternate" -> FlagVal(r, f, k)
      [] p = "corr0" -> f = 0 /\ k = 0
      [] p = "row0" -> r = 0 /\ k = ncorr - 1

CubeInit(patterns, counts) ==
    /\ pc = "constructed"
    /\ \E n \in counts : \E rows \in [1..n -> CubeRowSet] :
       \E ncorr \in NCorrs, tdim \in TDims, p \in patterns :
          LET nobitflag == [state |-> "absent", cells |-> FullCol(n, 2, ncorr, {})]
              cfg == FlagSetup(nobitflag, [reinit |-> FALSE, apply |-> {"legacy"},
                                           save |-> "None", auto_init |-> "None"])
          IN
          /\ \A i, j \in 1..n : rows[i] = rows[j] => i = j
          /\ ms = [time_col |-> [i \in 1..n |-> rows[i].time],
                   ddid_col |-> [i \in 1..n |-> 0],
                   antea |-> [i \in 1..n |-> rows[i].a],
                   anteb |-> [i \in 1..n |-> rows[i].b],
                   DATA |-> [r \in 0..(n - 1) |-> [f \in 0..1 |-> [k \in 0..(ncorr - 1) |->
                               DataVal(r, f, k)]]],
                   UVW |-> [r \in 0..(n - 1) |-> <<r + 1, 0, 0>>],
                   FLAG |-> [r \in 0..(n - 1) |-> [f \in 0..1 |-> [k \in 0..(ncorr - 1) |->
                               CubeFlagVal(p, r, f, k, ncorr)]]],
                   FLAG_ROW |-> [r \in 0..(n - 1) |-> FALSE],
                   BITFLAG |-> cfg.BITFLAG,
                   BITFLAG_ROW |-> BitflagRowOf(n, 2, ncorr, cfg.BITFLAG)]
          /\ opts = [tdim |-> tdim, nfreq |-> 2, fdim |-> 1, min_chunks_per_tile |-> 1,
                     ddids |-> <<0>>, ncorr |-> ncorr, nants |-> Cardinality(Antennas),
                     reinit_bitflags |-> cfg.reinit_bitflags,
                     auto_fill_bitflag |-> cfg.auto_fill_bitflag,
                     apply_flags |-> cfg.apply_flags,
                     apply_bitflags |-> cfg.apply_bitflags,
                     save_bitflag |-> cfg.save_bitflag,
                     active_subset |-> FALSE, active_row_numbers |-> {},
                     min_baseline |-> 0, max_baseline |-> 0,
                     load_model |-> FALSE]
    /\ handler = NoHandler
    /\ tile_list = <<>>
    /\ shared = <<>>
    /\ tilemem = <<>>
    /\ cube = NoCube
    /\ ret = NoRet
    /\ workers = NoWorkers
    /\ gain_dict = <<>>
    /\ calls = <<>>
    /\ outcome = Outcome("none", 0, "ok", "none")

InitCube == CubeInit({"alternate"}, 1..MaxCubeRows)

NextCube ==
    \/ DefineChunk
    \/ \E t \in DOMAIN tile_list : Load(t)
    \/ \E t \in DOMAIN tile_list : \E e \in DOMAIN tile_list[t].chunk_dict :
          \E kind \in {"obvis", "flags"} : ColumnToCubeCall(t, e, kind)
    \/ \E t \in DOMAIN tile_list : CubeToColumnCall(t)

SpecCube == InitCube /\ [][NextCube]_vars

----------------------------------------------------------------------------
(* The montblanc runs: rows of distinct (TIME, antenna pair), cross- and    *)
(* autocorrelations, in time order; tiles are loaded, padded and stripped   *)

\* the orders in which the antenna pairs of one timeslot follow each other
PairOrders == {<<<<0, 1>>, <<0, 2>>, <<1, 1>>, <<1, 2>>>>,
               <<<<1, 2>>, <<1, 1>>, <<0, 2>>, <<0, 1>>>>}

PrepRowSet == {r \in [time : CubeTimes, a : Antennas, b : Antennas] :
                  \E po \in PairOrders : <<r.a, r.b>> \in SeqRange(po)}

\* the rows of S in time order, the pairs of one timeslot in the order po
PrepRowsOf(S, po) ==
    LET all == [j \in 1..(Cardinality(CubeTimes) * Len(po)) |->
                   [time |-> SortSet(CubeTimes)[((j - 1) \div Len(po)) + 1],
                    a |-> po[((j - 1) % Len(po)) + 1][1],
                    b |-> po[((j - 1) % Len(po)) + 1][2]]]
    IN SelectSeq(all, LAMBDA r : r \in S)

InitPrep ==
    /\ pc = "constructed"
    /\ \E S \in {X \in SUBSET PrepRowSet : X # {} /\ Cardinality(X) <= MaxPrepRows} :
       \E po \in PairOrders :
          LET rows == PrepRowsOf(S, po)
              n == Len(rows)
              nobitflag == [state |-> "absent", cells |-> FullCol(n, 1, 1, {})]
              cfg == FlagSetup(nobitflag, [reinit |-> FALSE, apply |-> {},
                                           save |-> "None", auto_init |-> "None"])
          IN
          /\ ms = [time_col |-> [i \in 1..n |-> rows[i].time],
                   ddid_col |-> [i \in 1..n |-> 0],
                   antea |-> [i \in 1..n |-> rows[i].a],
                   anteb |-> [i \in 1..n |-> rows[i].b],
                   DATA |-> [r \in 0..(n - 1) |-> [f \in 0..0 |-> [k \in 0..0 |-> DataVal(r, f, k)]]],
                   UVW |-> [r \in 0..(n - 1) |-> <<r + 1, 0, 0>>],
                   FLAG |-> FullCol(n, 1, 1, FALSE),
                   FLAG_ROW |-> [r \in 0..(n - 1) |-> FALSE],
                   BITFLAG |-> cfg.BITFLAG,
                   BITFLAG_ROW |-> BitflagRowOf(n, 1, 1, cfg.BITFLAG)]
          /\ opts = [tdim |-> 2, nfreq |-> 1, fdim |-> 1, min_chunks_per_tile |-> 1,
                     ddids |-> <<0>>, ncorr |-> 1, nants |-> Cardinality(Antennas),
                     reinit_bitflags |-> cfg.reinit_bitflags,
                     auto_fill_bitflag |-> cfg.auto_fill_bitflag,
                     apply_flags |-> cfg.apply_flags,
                     apply_bitflags |-> cfg.apply_bitflags,
                     save_bitflag |-> cfg.save_bitflag,
                     active_subset |-> FALSE, active_row_numbers |-> {},
                     min_baseline |-> 0, max_baseline |-> 0,
                     load_model |-> FALSE]
    /\ handler = NoHandler
    /\ tile_list = <<>>
    /\ shared = <<>>
    /\ tilemem = <<>>
    /\ cube = NoCube
    /\ ret = NoRet
    /\ workers = NoWorkers
    /\ gain_dict = <<>>
    /\ calls = <<>>
    /\ outcome = Outcome("none", 0, "ok", "none")

NextPrep ==
    \/ DefineChunk
    \/ \E t \in DOMAIN tile_list : Load(t)
    \/ \E t \in DOMAIN tile_list : PrepCall(t)
    \/ \E t \in DOMAIN tile_list : UnprepCall(t)

SpecPrep == InitPrep /\ [][NextPrep]_vars

----------------------------------------------------------------------------
(* Runs of a tile's life: load, chunk cubes out and back, save, release *)

\* the timestamps of the rows, all of baseline (0, 1), the number of channels and
\* min_chunks_per_tile
TileLayouts == {[times |-> <<10, 20>>, nfreq |-> 2, min_chunks |-> 1],
                [times |-> <<10, 20, 30>>, nfreq |-> 1, min_chunks |-> 1]}

\* three rows in one tile of two row chunks
TwoRowChunks == [times |-> <<10, 20, 30>>, nfreq |-> 1, min_chunks |-> 2]

\* the FLAG column of these runs: one cell of the first row
TileFlagVal(r, f, k) == r = 0 /\ f = 0

\* flag options with the BITFLAG column before the run: FLAG applied and nothing saved;
\* a filled BITFLAG column applied and the "cubical" bit saved; a BITFLAG column
\* initialised from FLAG, applied, and the "cubical" bit saved
TileFlagConfigs ==
    {[state |-> "absent", filled |-> FALSE,
      flagopts |-> [reinit |-> FALSE, apply |-> {"legacy"}, save |-> "None", auto_init |-> "None"]],
     [state |-> "filled", filled |-> TRUE,
      flagopts |-> [reinit |-> FALSE, apply |-> {"legacy"}, save |-> "cubical", auto_init |-> "None"]],
     [state |-> "absent", filled |-> FALSE,
      flagopts |-> [reinit |-> FALSE, apply |-> {"legacy"}, save |-> "cubical", auto_init |-> "legacy"]]}

\* what the run takes as models: none (load_model is False); two directions of one
\* model; one direction of two models; one direction of one model with two components
NoModels == [load_model |-> FALSE, model_directions |-> <<>>, models |-> <<>>]
ModelConfigs ==
    {[load_model |-> TRUE, model_directions |-> <<"d0", "d1">>,
      models |-> << << <<"MODEL_A">>, <<"MODEL_B">> >> >>],
     [load_model |-> TRUE, model_directions |-> <<"d0">>,
      models |-> << << <<"MODEL_A">> >>, << <<"MODEL_B">> >> >>],
     [load_model |-> TRUE, model_directions |-> <<"d0">>,
      models |-> << << <<"MODEL_A", "MODEL_B">> >> >>]}

\* rows whose first channel may hold a non-finite value; -1 for none
BadRows == {-1, 0, 1}

TileInit(layouts, flagconfigs, modelconfigs, outputs, baddata, badmodel) ==
    /\ pc = "constructed"
    /\ \E lay \in layouts, fc \in flagconfigs, mc \in modelconfigs, out \in outputs,
          bd \in baddata, bm \in badmodel :
          LET n == Len(lay.times)
              nfreq == lay.nfreq
              flag == [r \in 0..(n - 1) |-> [f \in 0..(nfreq - 1) |-> [k \in 0..0 |->
                          TileFlagVal(r, f, k)]]]
              bitflag == [state |-> fc.state,
                          cells |-> [r \in 0..(n - 1) |-> [f \in 0..(nfreq - 1) |-> [k \in 0..0 |->
                                       IF fc.filled /\ flag[r][f][k] THEN {"legacy"} ELSE {}]]]]
              cfg == FlagSetup(bitflag, fc.flagopts)
              val(r, f, k, bad) == IF r = bad /\ f = 0 THEN <<NonFinite, 0>> ELSE DataVal(r, f, k)
          IN
          /\ cfg.constructed
          /\ ms = [time_col |-> lay.times,
                   ddid_col |-> [i \in 1..n |-> 0],
                   antea |-> [i \in 1..n |-> 0],
                   anteb |-> [i \in 1..n |-> 1],
                   DATA |-> [r \in 0..(n - 1) |-> [f \in 0..(nfreq - 1) |-> [k \in 0..0 |->
                               val(r, f, k, bd)]]],
                   MODEL |-> [c \in {"MODEL_A", "MODEL_B"} |->
                               [r \in 0..(n - 1) |-> [f \in 0..(nfreq - 1) |-> [k \in 0..0 |->
                                   IF c = "MODEL_A" THEN <<1, 0>> ELSE val(r, f, k, bm)]]]],
                   OUTPUT |-> [present |-> FALSE, cells |-> FullCol(n, nfreq, 1, CZero)],
                   UVW |-> [r \in 0..(n - 1) |-> <<r + 1, 0, 0>>],
                   FLAG |-> flag,
                   FLAG_ROW |-> [r \in 0..(n - 1) |-> FALSE],
                   BITFLAG |-> cfg.BITFLAG,
                   BITFLAG_ROW |-> BitflagRowOf(n, nfreq, 1, cfg.BITFLAG)]
          /\ opts = [tdim |-> 1, nfreq |-> nfreq, fdim |-> 1, min_chunks_per_tile |-> lay.min_chunks,
                     ddids |-> <<0>>, ncorr |-> 1, nants |-> 2,
                     reinit_bitflags |-> cfg.reinit_bitflags,
                     auto_fill_bitflag |-> cfg.auto_fill_bitflag,
                     apply_flags |-> cfg.apply_flags,
                     apply_bitflags |-> cfg.apply_bitflags,
                     save_bitflag |-> cfg.save_bitflag,
                     active_subset |-> FALSE, active_row_numbers |-> {},
                     min_baseline |-> 0, max_baseline |-> 0,
                     load_model |-> mc.load_model,
                     model_directions |-> mc.model_directions,
                     models |-> mc.models,
                     output_column |-> out]
    /\ handler = NoHandler
    /\ tile_list = <<>>
    /\ shared = <<>>
    /\ tilemem = <<>>
    /\ cube = NoCube
    /\ ret = NoRet
    /\ workers = NoWorkers
    /\ gain_dict = <<>>
    /\ calls = <<>>
    /\ outcome = Outcome("none", 0, "ok", "none")

\* the FLAG column applied, no bitflags, finite data, no models
PlainFlags == {fc \in TileFlagConfigs : fc.flagopts.save = "None"}

InitTile == TileInit(TileLayouts, PlainFlags, {NoModels}, {"None", "CORRECTED_DATA"}, {-1}, {-1})

NextTile ==
    \/ DefineChunk
    \/ \E t \in DOMAIN tile_list : Load(t)
    \/ \E t \in DOMAIN tile_list : \E e \in DOMAIN tile_list[t].chunk_dict : GetChunkCubesCall(t, e)
    \/ \E t \in DOMAIN tile_list : SetChunkCubesCall(t)
    \/ \E t \in DOMAIN tile_list : \E e \in DOMAIN tile_list[t].chunk_dict : CreateSolutionsChunkDict(t, e)
    \/ \E t \in DOMAIN tile_list : Save(t)
    \/ \E t \in DOMAIN tile_list : Release(t)

SpecTile == InitTile /\ [][NextTile]_vars

\* runs that save flags: bitflags applied and the "cubical" bit saved, data that may
\* hold a non-finite value, no output column
SavingFlags == {fc \in TileFlagConfigs : fc.flagopts.save # "None"}

InitSave == TileInit(TileLayouts \cup {TwoRowChunks}, SavingFlags, {NoModels}, {"None"}, BadRows, {-1})

NextSave ==
    \/ DefineChunk
    \/ \E t \in DOMAIN tile_list : Load(t)
    \/ \E t \in DOMAIN tile_list : \E e \in DOMAIN tile_list[t].chunk_dict : GetChunkCubesCall(t, e)
    \/ \E t \in DOMAIN tile_list : SetChunkCubesCall(t)
    \/ \E t \in DOMAIN tile_list : Save(t)

SpecSave == InitSave /\ [][NextSave]_vars

\* runs that load models and take chunk cubes: non-finite values in the data, in the
\* model column MODEL_B, in both or in neither
InitGet == TileInit(TileLayouts, PlainFlags, ModelConfigs \cup {NoModels}, {"None"}, BadRows, BadRows)

NextGet ==
    \/ DefineChunk
    \/ \E t \in DOMAIN tile_list : Load(t)
    \/ \E t \in DOMAIN tile_list : \E e \in DOMAIN tile_list[t].chunk_dict : GetChunkCubesCall(t, e)

SpecGet == InitGet /\ [][NextGet]_vars

\* runs in which two workers set the cubes of two chunks of a tile at the same time
InitWork == TileInit({lay \in TileLayouts : lay.nfreq = 2} \cup {TwoRowChunks}, SavingFlags,
                     {NoModels}, {"None"}, BadRows, {-1})

NextWork ==
    \/ DefineChunk
    \/ \E t \in DOMAIN tile_list : Load(t)
    \/ \E t \in DOMAIN tile_list : Dispatch(t)
    \/ \E i \in {1, 2} : WorkerStep(i)

SpecWork == InitWork /\ [][NextWork]_vars

----------------------------------------------------------------------------
(* Claims about the partitioning *)

NRows == Len(ms.time_col)
AllRows == 0..(NRows - 1)
NTime == Cardinality(SeqRange(ms.time_col))
NumFreqChunks == Len(handler.chunk_find) - 1

\* the data set row numbers of row chunk rc of a finalized tile
AbsRows(tile, rc) ==
    {tile.rowchunks[rc].rows[k] + tile.first_row : k \in DOMAIN tile.rowchunks[rc].rows}

\* the (tile, row chunk) pairs that hold data set row r
TileChunkPairs ==
    UNION {{<<t, c>> : c \in DOMAIN tile_list[t].rowchunks} : t \in DOMAIN tile_list}

HoldersOf(r) == {tc \in TileChunkPairs : r \in AbsRows(tile_list[tc[1]], tc[2])}

\* C1: after define_chunk every selected row belongs to exactly one Tile and to
\* exactly one RowChunk of it, and the row chunks together hold all selected rows.
C1_RowsPartitioned ==
    pc = "chunked" =>
        /\ \A r \in AllRows : Cardinality(HoldersOf(r)) = 1
        /\ UNION {AbsRows(tile_list[tc[1]], tc[2]) : tc \in TileChunkPairs} = AllRows

\* C2: the row ranges [first_row, last_row] of the tiles are pairwise disjoint, in
\* ascending first_row order, and cover [0, nrows) exactly once.
C2_TileRangesCover ==
    pc = "chunked" =>
        /\ \A i, j \in DOMAIN tile_list :
              i < j => /\ tile_list[i].first_row < tile_list[j].first_row
                       /\ tile_list[i].last_row < tile_list[j].first_row
        /\ \A r \in AllRows :
              Cardinality({t \in DOMAIN tile_list :
                  tile_list[t].first_row <= r /\ r <= tile_list[t].last_row}) = 1

\* C3: without boundary columns the time chunk boundaries are 0, tdim, 2*tdim, ...
\* and finally ntime; every time chunk spans at most tdim timeslots and every
\* timeslot lies in a time chunk.
C3_UniformTimeChunks ==
    pc = "chunked" =>
        LET tc == handler.timechunks IN
        /\ tc = Append(Range(0, NTime, opts.tdim), NTime)
        /\ \A i \in DOMAIN handler.chunk_ntimes : handler.chunk_ntimes[i] <= opts.tdim
        /\ \A t \in 0..(NTime - 1) :
              \E i \in 1..(Len(tc) - 1) : tc[i] <= t /\ t < tc[i + 1]

\* C4: the frequency chunk boundaries start at 0, end at nfreq and increase
\* strictly, and every row chunk of every Tile is cut at exactly these boundaries.
C4_FreqChunksPartition ==
    pc = "chunked" =>
        LET cf == handler.chunk_find IN
        /\ Len(cf) >= 2
        /\ cf[1] = 0
        /\ Last(cf) = opts.nfreq
        /\ \A i \in 1..(Len(cf) - 1) : cf[i] < cf[i + 1]
        /\ \A t \in DOMAIN tile_list : \A c \in DOMAIN tile_list[t].rowchunks :
              {<<e.val.chan0, e.val.chan1>> :
                  e \in {x \in SeqRange(tile_list[t].chunk_dict) : x.val.rowchunk = c}}
                = {<<cf[i], cf[i + 1]>> : i \in 1..(Len(cf) - 1)}

C4_Witness ==
    /\ pc = "chunked"
    /\ Len(tile_list) >= 2
    /\ Len(handler.chunk_find) >= 3
    /\ opts.nfreq % opts.fdim # 0

TileChunkCount(tile) == Len(tile.rowchunks) * NumFreqChunks

----------------------------------------------------------------------------
(* Claims about the cubes *)

\* the chunk the last cube was built for
CubeTile == tile_list[cube.tile]
CubeData == shared[CubeTile.data_dict_name]
CubeArgs == ChunkArgs(CubeTile, cube.entry, handler)
CubeRowA(i) == At(CubeTile.antea, CubeArgs.rows[i])
CubeRowB(i) == At(CubeTile.anteb, CubeArgs.rows[i])
CubeRowT(i) == At(CubeTile.times, CubeArgs.rows[i])
CubeTMin == SetMin({CubeRowT(i) : i \in DOMAIN CubeArgs.rows})

\* C5: writing the cube built from a column back with _cube_to_column (same rows
\* and frequency range) reproduces the column's values on all rows of the chunk
\* that are not autocorrelations, whatever the time order of the chunk's rows.
C5_RoundTrip ==
    outcome.op = "cube_to_column" =>
        \A i \in DOMAIN CubeArgs.rows :
            CubeRowA(i) # CubeRowB(i) =>
                \A f \in CubeArgs.freq0..(CubeArgs.freq1 - 1), k \in 0..(opts.ncorr - 1) :
                    CubeData.covis[CubeArgs.rows[i]][f][k] = CubeData.obvis[CubeArgs.rows[i]][f][k]

C7_DiagonalZero ==
    /\ cube.kind = "obvis" =>
          \A t \in DOMAIN cube.arr.vis : \A f \in DOMAIN cube.arr.vis[t] :
             \A a \in DOMAIN cube.arr.vis[t][f] : \A k \in 0..3 :
                cube.arr.vis[t][f][a][a][k] = CZero
    /\ cube.kind = "flags" =>
          \A t \in DOMAIN cube.arr.flags : \A f \in DOMAIN cube.arr.flags[t] :
             \A a \in DOMAIN cube.arr.flags[t][f] : \A k \in 0..3 :
                cube.arr.flags[t][f][a][a][k] = FL_ZERO

----------------------------------------------------------------------------
(* Claims about prep_for_montblanc / unprep_for_montblanc *)

\* the tile of the last operation and its attributes as finalize() set them
OpTile == tile_list[outcome.tile]
OrigAntea(tile) == Slice(handler.antea, tile.first_row, tile.last_row + 1)
OrigAnteb(tile) == Slice(handler.anteb, tile.first_row, tile.last_row + 1)
OrigTimeCol(tile) == Slice(handler.time_col, tile.first_row, tile.last_row + 1)
OrigDdidCol(tile) == Slice(handler.ddid_col, tile.first_row, tile.last_row + 1)
OrigUvw(tile) == Fetch(ms.UVW, tile.first_row, TileNRows(tile))

\* the full grid of the tile: baselines x timeslots x DDIDs
GridRows(tile) ==
    {<<d, t, bl[1], bl[2]>> : d \in SeqRange(tile.ddids), t \in SeqRange(OrigTimeCol(tile)),
                              bl \in BaselineSet(opts.nants)}
ExpectedNRows(tile) == Cardinality(GridRows(tile))
TileRowAt(tile, i) == <<tile.ddid_col[i], tile.time_col[i], tile.antea[i], tile.anteb[i]>>

\* C11: on a tile with fewer rows than the full grid prep_for_montblanc appends
\* exactly expected - actual placeholder rows, one per missing (DDID, timestamp,
\* antenna pair) with zero UVW, so that all padded arrays have expected_nrows
\* entries; unprep_for_montblanc restores the arrays to their original contents.
C11_PadAndRestore ==
    /\ (outcome.op = "prep_for_montblanc" /\ TileNRows(OpTile) < ExpectedNRows(OpTile)) =>
          LET n == TileNRows(OpTile)
              e == ExpectedNRows(OpTile)
              uvw == tilemem[outcome.tile].uvwco
          IN /\ outcome.status = "ok"
             /\ Len(OpTile.antea) = e /\ Len(OpTile.anteb) = e
             /\ Len(OpTile.time_col) = e /\ Len(OpTile.ddid_col) = e
             /\ DOMAIN uvw = 0..(e - 1)
             /\ \A i \in 1..n : /\ TileRowAt(OpTile, i) = <<OrigDdidCol(OpTile)[i], OrigTimeCol(OpTile)[i],
                                                           OrigAntea(OpTile)[i], OrigAnteb(OpTile)[i]>>
                                /\ uvw[i - 1] = OrigUvw(OpTile)[i - 1]
             /\ \A i \in (n + 1)..e : uvw[i - 1] = <<0, 0, 0>>
             /\ {TileRowAt(OpTile, i) : i \in (n + 1)..e}
                   = GridRows(OpTile) \ {TileRowAt(OpTile, i) : i \in 1..n}
             /\ Cardinality({TileRowAt(OpTile, i) : i \in (n + 1)..e}) = e - n
    /\ outcome.op = "unprep_for_montblanc" =>
          /\ OpTile.antea = OrigAntea(OpTile) /\ OpTile.anteb = OrigAnteb(OpTile)
          /\ OpTile.time_col = OrigTimeCol(OpTile) /\ OpTile.ddid_col = OrigDdidCol(OpTile)
          /\ tilemem[outcome.tile].uvwco = OrigUvw(OpTile)

\* the rows of the tile whose two antennas differ
CrossRows(tile) == {i \in 1..TileNRows(tile) : OrigAntea(tile)[i] # OrigAnteb(tile)[i]}

\* C12: on a tile with more rows than the full grid prep_for_montblanc drops the
\* rows whose antennas are equal; it returns a sort index of exactly expected_nrows
\* cross-correlation rows when that many remain and raises only when the count
\* still differs.
C12_DropAutocorrelations ==
    (outcome.op = "prep_for_montblanc" /\ TileNRows(OpTile) > ExpectedNRows(OpTile)) =>
        /\ outcome.status = "ok" <=> Cardinality(CrossRows(OpTile)) = ExpectedNRows(OpTile)
        /\ outcome.status = "ok" =>
              /\ Len(ret.sorted_ind) = ExpectedNRows(OpTile)
              /\ \A k \in DOMAIN ret.sorted_ind : ret.sorted_ind[k] + 1 \in CrossRows(OpTile)

----------------------------------------------------------------------------
(* Claims about load() *)

\* the last operation was a load() of tile t that got past the creation of its region
LoadedPastCreate(t) ==
    /\ outcome.op = "load"
    /\ outcome.tile = t
    /\ outcome.error # "create"

\* C9: when the BITFLAG column cannot be read and an auto-fill bitmask is
\* configured, load() completes, the synthesized bflagcol / bflagrow carry the
\* auto-fill bits exactly where FLAG / FLAG_ROW are set and are 0 elsewhere, and
\* updated[1] is true.
C9_AutoFillFromFlags ==
    \A t \in DOMAIN tile_list :
        (LoadedPastCreate(t) /\ opts.auto_fill_bitflag # {} /\ ~BitflagReadable(ms)) =>
            LET tile == tile_list[t]
                bf == tilemem[t]
            IN /\ outcome.status = "ok"
               /\ bf.colset /\ bf.rowset
               /\ \A r \in 0..(TileNRows(tile) - 1) :
                     /\ bf.bflagrow[r] = IF ms.FLAG_ROW[tile.first_row + r]
                                         THEN opts.auto_fill_bitflag ELSE {}
                     /\ \A f \in 0..(opts.nfreq - 1), k \in 0..(opts.ncorr - 1) :
                           bf.bflagcol[r][f][k] = IF ms.FLAG[tile.first_row + r][f][k]
                                                  THEN opts.auto_fill_bitflag ELSE {}
               /\ shared[tile.data_dict_name].updated[2]

C9_Witness ==
    \E t \in DOMAIN tile_list :
        /\ LoadedPastCreate(t)
        /\ opts.auto_fill_bitflag # {}
        /\ ms.BITFLAG.state = "unfilled"
        /\ ~opts.reinit_bitflags
        /\ tile_list[t].first_row > 0
        /\ \E r \in 0..(TileNRows(tile_list[t]) - 1) :
              /\ ms.FLAG[tile_list[t].first_row + r][0][0]
              /\ ~ms.FLAG_ROW[tile_list[t].first_row + r]
        /\ outcome.status = "ok"

\* C10: when bitflags are needed, re-initialization is not requested, the
\* BITFLAG column cannot be read and no auto-fill bitmask is configured, load()
\* fails with the read error and sets no bitflag array.
C10_UnreadableBitflagFatal ==
    \A t \in DOMAIN tile_list :
        (/\ LoadedPastCreate(t)
         /\ NeedsBitflags(opts)
         /\ ~opts.reinit_bitflags
         /\ ~BitflagReadable(ms)
         /\ opts.auto_fill_bitflag = {}) =>
            /\ outcome.status = "error"
            /\ outcome.error = "read BITFLAG"
            /\ ~tilemem[t].colset
            /\ ~shared[tile_list[t].data_dict_name].has_solutions

C10_Witness ==
    \E t \in DOMAIN tile_list :
        /\ LoadedPastCreate(t)
        /\ opts.save_bitflag # {}
        /\ opts.auto_fill_bitflag = {}
        /\ ms.BITFLAG.state = "unfilled"
        /\ outcome.error = "read BITFLAG"

----------------------------------------------------------------------------
(* Claims about the life of a tile's region *)

\* the operations of a tile that attach to its region by name
AttachingOps ==
    {"get_chunk_cubes", "set_chunk_cubes", "create_solutions_chunk_dict", "save", "release"}

RegionExists(store, t) == tile_list[t].data_dict_name \in DOMAIN store

\* C13: a successful release() leaves no region of the tile; while the tile has no
\* region, each of get_chunk_cubes, set_chunk_cubes, create_solutions_chunk_dict, save
\* and release on it fails and leaves it without one; and a step after which a region
\* exists that did not exist before is a load() of that tile
C13_ReleasedRegionGone ==
    [][\A t \in DOMAIN tile_list :
          /\ (outcome'.op = "release" /\ outcome'.tile = t /\ outcome'.status = "ok")
                => ~RegionExists(shared', t)
          /\ (~RegionExists(shared, t) /\ outcome'.tile = t /\ outcome'.op \in AttachingOps)
                => (outcome'.status = "error" /\ ~RegionExists(shared', t))
          /\ (~RegionExists(shared, t) /\ RegionExists(shared', t))
                => (outcome'.op = "load" /\ outcome'.tile = t)]_vars

\* a tile that was loaded and released, at which get_chunk_cubes has just failed
C13_Witness ==
    \E t \in DOMAIN tile_list :
        /\ tilemem[t].uvwset
        /\ ~RegionExists(shared, t)
        /\ outcome = Outcome("get_chunk_cubes", t, "error", "attach")

\* C14: a load() of a tile whose region exists fails and leaves every region, with
\* its arrays and its updated entries, as it was
C14_SecondLoadFails ==
    [][\A t \in DOMAIN tile_list :
          (RegionExists(shared, t) /\ outcome'.op = "load" /\ outcome'.tile = t)
            => (outcome'.status = "error" /\ outcome'.error = "create" /\ shared' = shared)]_vars

\* a second load() has just failed on a tile whose region holds written cubes
C14_Witness ==
    \E t \in DOMAIN tile_list :
        /\ outcome = Outcome("load", t, "error", "create")
        /\ RegionExists(shared, t)
        /\ shared[tile_list[t].data_dict_name].updated = <<TRUE, TRUE>>

Region(t) == shared[tile_list[t].data_dict_name]

\* rows first_row..last_row of a column of the data set hold arr, the others what
\* they held in column before
WrittenRows(after, before, arr, tile) ==
    \A r \in DOMAIN after :
        after[r] = IF tile.first_row <= r /\ r <= tile.last_row
                   THEN arr[r - tile.first_row] ELSE before[r]

\* C15: a save() of a tile writes covis to rows first_row..last_row of the output
\* column when an output column is configured and updated[0] is true, and leaves the
\* output column alone otherwise; nothing but save() changes the output column; a
\* load() leaves updated[0] false; and updated[0] becomes true only in a
\* set_chunk_cubes call that is given a cube
C15_OutputWrittenIffUpdated ==
    [][\A t \in DOMAIN tile_list :
          /\ (outcome'.op = "save" /\ outcome'.tile = t /\ RegionExists(shared, t))
                => IF opts.output_column # "None" /\ Region(t).updated[1]
                   THEN /\ ms'.OUTPUT.present
                        /\ WrittenRows(ms'.OUTPUT.cells, ms.OUTPUT.cells, Region(t).covis, tile_list[t])
                   ELSE ms'.OUTPUT = ms.OUTPUT
          /\ (outcome'.op # "save") => ms'.OUTPUT = ms.OUTPUT
          /\ (outcome'.op = "load" /\ outcome'.tile = t /\ outcome'.status = "ok")
                => (RegionExists(shared', t) /\ ~shared'[tile_list[t].data_dict_name].updated[1])
          /\ (RegionExists(shared, t) /\ RegionExists(shared', t) /\ ~Region(t).updated[1]
                /\ shared'[tile_list[t].data_dict_name].updated[1])
                => (outcome'.op = "set_chunk_cubes" /\ outcome'.tile = t
                      /\ outcome'.error \in {"cube", "cube, flag_cube"})]_vars

\* a save() has just written the cubes set into covis to the output column
C15_Witness ==
    \E t \in DOMAIN tile_list :
        /\ outcome = Outcome("save", t, "ok", "none")
        /\ RegionExists(shared, t)
        /\ Region(t).updated[1]
        /\ ms.OUTPUT.present
        /\ \E r \in DOMAIN Region(t).covis : Region(t).covis[r][0][0] # CZero
        /\ WrittenRows(ms.OUTPUT.cells, ms.OUTPUT.cells, Region(t).covis, tile_list[t])

----------------------------------------------------------------------------
(* Claims about saving flags *)

\* the save() step of tile t that takes the flag branch
SavesFlags(t) ==
    /\ outcome'.op = "save" /\ outcome'.tile = t /\ outcome'.status = "ok"
    /\ RegionExists(shared, t)
    /\ opts.save_bitflag # {}
    /\ Region(t).updated[2]

\* the plain flag columns over the tile's rows are derived from the bitflag column
FlagColumnsDerived(m, tile) ==
    \A r \in tile.first_row..tile.last_row :
        /\ \A f \in DOMAIN m.FLAG[r] : \A k \in DOMAIN m.FLAG[r][f] :
              m.FLAG[r][f][k] = (m.BITFLAG.cells[r][f][k] # {})
        /\ m.FLAG_ROW[r] = \A f \in DOMAIN m.FLAG[r] : \A k \in DOMAIN m.FLAG[r][f] : m.FLAG[r][f][k]

\* C16: a save() that takes the flag branch adds the save bit to the bitflag of a
\* visibility exactly when its tile flag is nonzero and has no PRIOR bit, writes that
\* bitflag column, and leaves FLAG equal to (bitflag != 0) and FLAG_ROW equal to
\* "every visibility of the row is flagged"
C16_SaveBitOnlyWhereNotPrior ==
    [][\A t \in DOMAIN tile_list :
          SavesFlags(t) =>
            LET flags == Region(t).flags
                before == tilemem[t].bflagcol
                after == tilemem'[t].bflagcol
            IN /\ \A r \in DOMAIN flags : \A f \in DOMAIN flags[r] : \A k \in DOMAIN flags[r][f] :
                     after[r][f][k] = IF flags[r][f][k] # {} /\ "PRIOR" \notin flags[r][f][k]
                                      THEN before[r][f][k] \cup opts.save_bitflag
                                      ELSE before[r][f][k]
               /\ WrittenRows(ms'.BITFLAG.cells, ms.BITFLAG.cells, after, tile_list[t])
               /\ FlagColumnsDerived(ms', tile_list[t])]_vars

----------------------------------------------------------------------------
(* Claims about the cubes of get_chunk_cubes *)

\* the data cube and the model cubes of the chunk last got, as _column_to_cube makes
\* them of the region, before anything is zeroed
RawObs ==
    LET tile == tile_list[cube.tile]
        args == ChunkArgs(tile, cube.entry, handler)
    IN CubeOfBlocks(ColumnToCube(tile, opts.ncorr, opts.nants, Region(cube.tile).obvis,
                                 args.t_dim, args.f_dim, args.rows, args.freq0, TRUE, CZero))

RawMod(d, m) ==
    LET tile == tile_list[cube.tile]
        args == ChunkArgs(tile, cube.entry, handler)
    IN CubeOfBlocks(ColumnToCube(tile, opts.ncorr, opts.nants, Region(cube.tile).movis[d][m],
                                 args.t_dim, args.f_dim, args.rows, args.freq0, TRUE, CZero))

\* the places (time, freq, antenna, antenna) of the cubes last got
CubePlaces ==
    {p \in (DOMAIN cube.arr.flags) \X (0..(opts.fdim - 1)) \X (0..(opts.nants - 1)) \X (0..(opts.nants - 1)) :
        p[2] \in DOMAIN cube.arr.flags[p[1]]}

\* the directions and models of the model cube last got
CubeModels ==
    IF Region(cube.tile).has_movis
    THEN (0..(Len(opts.model_directions) - 1)) \X (0..(Len(opts.models) - 1))
    ELSE {}

\* C17: in the cubes that get_chunk_cubes returns, a place where the data cube or the
\* model cube of any direction and any model holds a non-finite value has the
\* INVALID bit in the reduced flag, and at every place whose reduced flag is nonzero
\* the data cube and the model cubes of all directions and models are zero
C17_NonFiniteInvalidAndZeroed ==
    cube.kind = "chunk" =>
        \A p \in CubePlaces :
            LET flag == cube.arr.flags[p[1]][p[2]][p[3]][p[4]]
            IN /\ (\/ AnyNonFinite(RawObs[p[1]][p[2]][p[3]][p[4]])
                   \/ \E dm \in CubeModels : AnyNonFinite(RawMod(dm[1], dm[2])[p[1]][p[2]][p[3]][p[4]]))
                    => "INVALID" \in flag
               /\ flag # {}
                    => /\ cube.arr.vis[p[1]][p[2]][p[3]][p[4]] = ZeroBlock
                       /\ \A dm \in CubeModels :
                             cube.arr.mod[dm[1]][dm[2]][p[1]][p[2]][p[3]][p[4]] = ZeroBlock

----------------------------------------------------------------------------
(* Claims about set_chunk_cubes *)

\* the cell (row r, channel f) of the tile's arrays belongs to the chunk of entry e
InChunk(tile, e, r, f) ==
    LET args == ChunkArgs(tile, e, handler)
    IN r \in SeqRange(args.rows) /\ args.freq0 <= f /\ f < args.freq1

\* column arrays a and b agree outside the chunk of entry e
SameOutside(a, b, tile, e) ==
    \A r \in DOMAIN a : \A f \in DOMAIN a[r] : ~InChunk(tile, e, r, f) => a[r][f] = b[r][f]

\* C18: a set_chunk_cubes call on a tile's region changes covis and flags only at
\* the rows and channels of its chunk, changes covis only when given a cube and flags
\* only when given a flag cube, changes no other array of the region and no other
\* region, and leaves updated[0] true exactly when it was true or a cube was given
\* and updated[1] true exactly when it was true or a flag cube was given
C18_SetChunkCubesFrame ==
    [][\A t \in DOMAIN tile_list :
          (outcome'.op = "set_chunk_cubes" /\ outcome'.tile = t /\ outcome'.status = "ok")
            => LET name == tile_list[t].data_dict_name
                   old == shared[name]
                   new == shared'[name]
                   has_cube == outcome'.error \in {"cube", "cube, flag_cube"}
                   has_flag_cube == outcome'.error \in {"flag_cube", "cube, flag_cube"}
               IN /\ DOMAIN shared' = DOMAIN shared
                  /\ \A n \in DOMAIN shared : n # name => shared'[n] = shared[n]
                  /\ SameOutside(new.covis, old.covis, tile_list[t], cube.entry)
                  /\ SameOutside(new.flags, old.flags, tile_list[t], cube.entry)
                  /\ ~has_cube => new.covis = old.covis
                  /\ ~has_flag_cube => new.flags = old.flags
                  /\ new.updated = <<old.updated[1] \/ has_cube, old.updated[2] \/ has_flag_cube>>
                  /\ [new EXCEPT !.covis = old.covis, !.flags = old.flags, !.updated = old.updated] = old
                  /\ ms' = ms /\ tilemem' = tilemem]_vars

\* a set_chunk_cubes call given both cubes has just changed covis and flags in its
\* chunk, in a tile that holds another chunk already written and still in place
C18_Witness ==
    \E t \in DOMAIN tile_list :
        /\ outcome = Outcome("set_chunk_cubes", t, "ok", "cube, flag_cube")
        /\ cube.tile = t
        /\ \E r \in DOMAIN Region(t).covis : \E f \in DOMAIN Region(t).covis[r] :
              /\ InChunk(tile_list[t], cube.entry, r, f)
              /\ Region(t).covis[r][f][0] # CZero
        /\ \E r \in DOMAIN Region(t).flags : \E f \in DOMAIN Region(t).flags[r] :
              /\ InChunk(tile_list[t], cube.entry, r, f)
              /\ "INVALID" \in Region(t).flags[r][f][0]
        /\ \E r \in DOMAIN Region(t).covis : \E f \in DOMAIN Region(t).covis[r] :
              /\ ~InChunk(tile_list[t], cube.entry, r, f)
              /\ Region(t).covis[r][f][0] # CZero

----------------------------------------------------------------------------
(* Claims about chunks set by different workers *)

\* the cells (row, channel) of the tile's arrays that the chunk of entry e addresses
ChunkCells(tile, e) ==
    {c \in (0..(TileNRows(tile) - 1)) \X (0..(opts.nfreq - 1)) : InChunk(tile, e, c[1], c[2])}

WorkersDone == workers.tile # 0 /\ \A i \in DOMAIN workers.procs : workers.procs[i].pc = "done"

\* the region after the set_chunk_cubes call of worker i, as one call, on region data
AfterCall(data, i) ==
    LET w == workers.procs[i]
        tile == tile_list[workers.tile]
    IN SetChunkCubes(tile, data, ChunkArgs(tile, w.entry, handler), opts, w.cube_in, w.flag_cube)

\* C19: two distinct keys of a finalized tile address disjoint cells, and once two
\* workers have each finished a set_chunk_cubes call for distinct keys, their
\* statements interleaved in any way, the region is what the two calls leave when
\* made one after the other, in either order
C19_DistinctKeysCommute ==
    /\ \A t \in DOMAIN tile_list :
          \A e1 \in DOMAIN tile_list[t].chunk_dict, e2 \in DOMAIN tile_list[t].chunk_dict :
             e1 # e2 => /\ tile_list[t].chunk_dict[e1].key # tile_list[t].chunk_dict[e2].key
                        /\ ChunkCells(tile_list[t], e1) \cap ChunkCells(tile_list[t], e2) = {}
    /\ WorkersDone =>
          /\ Region(workers.tile) = AfterCall(AfterCall(workers.before, 1), 2)
          /\ Region(workers.tile) = AfterCall(AfterCall(workers.before, 2), 1)

\* two workers have finished, each was given a cube and a flag cube, and covis and
\* flags differ from what they were before
C19_Witness ==
    /\ WorkersDone
    /\ \A i \in DOMAIN workers.procs :
          workers.procs[i].cube_in.given /\ workers.procs[i].flag_cube.given
    /\ Region(workers.tile).covis # workers.before.covis
    /\ Region(workers.tile).flags # workers.before.flags

----------------------------------------------------------------------------
(* Claims about the chunk index *)

\* C20: the chunk index of every finalized tile holds, for each row chunk of the tile
\* in order and each frequency chunk index in ascending order, one entry with the key
\* D<ddid>T<tchunk>F<ifreq>, that row chunk and the bounds chunk_find[ifreq],
\* chunk_find[ifreq+1]; it holds nothing else, no key occurs twice, and
\* get_chunk_keys() gives the keys in that order
C20_ChunkIndex ==
    pc = "chunked" =>
        \A t \in DOMAIN tile_list :
            LET tile == tile_list[t]
                nfc == Len(handler.chunk_find) - 1
                keys == GetChunkKeys(tile)
            IN /\ Len(tile.chunk_dict) = Len(tile.rowchunks) * nfc
               /\ Len(keys) = Len(tile.chunk_dict)
               /\ \A i \in DOMAIN keys, j \in DOMAIN keys : keys[i] = keys[j] => i = j
               /\ \A rc \in DOMAIN tile.rowchunks : \A ifreq \in 0..(nfc - 1) :
                     LET pos == (rc - 1) * nfc + ifreq + 1
                     IN /\ keys[pos] = <<"D", tile.rowchunks[rc].ddid, "T", tile.rowchunks[rc].tchunk,
                                          "F", ifreq>>
                        /\ tile.chunk_dict[pos].key = keys[pos]
                        /\ tile.chunk_dict[pos].val.rowchunk = rc
                        /\ tile.chunk_dict[pos].val.chan0 = At(handler.chunk_find, ifreq)
                        /\ tile.chunk_dict[pos].val.chan1 = At(handler.chunk_find, ifreq + 1)

\* a finalized tile of several row chunks and several frequency chunks
C20_Witness ==
    /\ pc = "chunked"
    /\ \E t \in DOMAIN tile_list :
          /\ Len(tile_list[t].rowchunks) >= 2
          /\ Len(handler.chunk_find) >= 3
          /\ Len(tile_list[t].chunk_dict) >= 4

----------------------------------------------------------------------------
(* ReadModelHandler.add_to_gain_dict *)

\* freq_indices: the channels range(first_f, last_f) put into n_fre lists, the
\* channel at position f of the range going to list f // f_int
FreqIndices(first_f, last_f, n_fre, f_int) ==
    LET freqs == Range(first_f, last_f, 1)
    IN [s \in 1..n_fre |->
           [k \in 1..Cardinality({p \in DOMAIN freqs : (p - 1) \div f_int = s - 1}) |->
               freqs[(s - 1) * f_int + k]]]

\* the composite key (d, tuple(timestamps), tuple(freq_indices[f]))
CompIdx(d, timestamps, freq_indices, f) == <<d, timestamps, At(freq_indices, f)>>

RECURSIVE GainLoop(_, _, _, _, _)
\* the triple loop over d, t, f; j counts the iterations already done
GainLoop(dict, gains, timestamps, freq_indices, j) ==
    LET n_tim == Len(gains[1])
        n_fre == Len(gains[1][1])
    IN IF j >= Len(gains) * n_tim * n_fre THEN dict
       ELSE LET d == j \div (n_tim * n_fre)
                t == (j \div n_fre) % n_tim
                f == j % n_fre
            IN GainLoop(DictSet(dict, CompIdx(d, timestamps, freq_indices, f),
                                At(At(At(gains, d), t), f)),
                        gains, timestamps, freq_indices, j + 1)

\* add_to_gain_dict(gains, bounds, t_int, f_int): the dictionary after the call;
\* bounds is (ddid, timechunk, first_f, last_f) and t_int is not used by the code
AddToGainDict(dict, h, gains, bounds, f_int) ==
    LET timestamps == At(h.chunk_timestamps, bounds[2])
        freq_indices == FreqIndices(bounds[3], bounds[4], Len(gains[1][1]), f_int)
    IN GainLoop(dict, gains, timestamps, freq_indices, 0)

\* the calls of one run, numbered
GainCallNos == {1, 2}
GainDirs == {1, 2}          \* n_dir
GainTimeSlots == {1, 2}     \* n_tim
GainFreqInts == {1, 2}      \* f_int

\* a gain array of the given shape; the value at (d, t, f) stands for an array
\* gains[d, t, f, :] that differs from every other one passed in the run
GainsOf(no, n_dir, n_tim, n_fre) ==
    [d \in 1..n_dir |-> [t \in 1..n_tim |-> [f \in 1..n_fre |-> <<no, d - 1, t - 1, f - 1>>]]]

\* a solver adds the gains of chunk e of tile t
AddToGainDictCall(t, e) ==
    /\ pc = "chunked"
    /\ t \in DOMAIN tile_list /\ e \in DOMAIN tile_list[t].chunk_dict
    /\ Len(calls) + 1 \in GainCallNos
    /\ \E n_dir \in GainDirs, n_tim \in GainTimeSlots, f_int \in GainFreqInts :
          LET tile == tile_list[t]
              val == tile.chunk_dict[e].val
              rc == tile.rowchunks[val.rowchunk]
              bounds == <<rc.ddid, rc.tchunk, val.chan0, val.chan1>>
              n_fre == (val.chan1 - val.chan0 + f_int - 1) \div f_int
              gains == GainsOf(Len(calls) + 1, n_dir, n_tim, n_fre)
          IN /\ gain_dict' = AddToGainDict(gain_dict, handler, gains, bounds, f_int)
             /\ calls' = Append(calls, [gains |-> gains, bounds |-> bounds, f_int |-> f_int])
    /\ outcome' = Outcome("add_to_gain_dict", t, "ok", "none")
    /\ UNCHANGED <<pc, ms, opts, handler, tile_list, shared, tilemem, cube, ret, workers>>

\* two data sets: two DDIDs over two timeslots, and one DDID over three
GainDataSets ==
    {[time_col |-> <<10, 10, 20, 20>>, ddid_col |-> <<0, 1, 0, 1>>,
      antea |-> <<0, 0, 0, 0>>, anteb |-> <<1, 1, 1, 1>>],
     [time_col |-> <<10, 20, 30>>, ddid_col |-> <<0, 0, 0>>,
      antea |-> <<0, 0, 0>>, anteb |-> <<1, 1, 1>>]}

InitGain ==
    /\ pc = "constructed"
    /\ ms \in GainDataSets
    /\ \E tdim \in TDims, fs \in {<<2, 1>>, <<4, 2>>, <<2, 3>>} :
          opts = [tdim |-> tdim, nfreq |-> fs[1], fdim |-> fs[2],
                  min_chunks_per_tile |-> 1, ddids |-> DDIDs]
    /\ handler = NoHandler
    /\ tile_list = <<>>
    /\ shared = <<>>
    /\ tilemem = <<>>
    /\ cube = NoCube
    /\ ret = NoRet
    /\ workers = NoWorkers
    /\ gain_dict = <<>>
    /\ calls = <<>>
    /\ outcome = Outcome("none", 0, "ok", "none")

NextGain ==
    \/ DefineChunk
    \/ \E t \in DOMAIN tile_list : \E e \in DOMAIN tile_list[t].chunk_dict :
          AddToGainDictCall(t, e)

SpecGain == InitGain /\ [][NextGain]_vars

----------------------------------------------------------------------------
(* C21 *)

\* what was added: (call number, ddid, time chunk, direction, output time slot,
\* output frequency slot as the channels folded into it)
Added ==
    UNION {{[no |-> n, ddid |-> calls[n].bounds[1], tchunk |-> calls[n].bounds[2],
                    d |-> d - 1, t |-> t - 1, f |-> f - 1,
                    chans |-> At(FreqIndices(calls[n].bounds[3], calls[n].bounds[4],
                                             Len(calls[n].gains[1][1]), calls[n].f_int), f - 1),
                    gain |-> calls[n].gains[d][t][f]] :
                      d \in DOMAIN calls[n].gains, t \in DOMAIN calls[n].gains[1],
                      f \in DOMAIN calls[n].gains[1][1]} : n \in DOMAIN calls}

SameSlot(a, b) ==
    /\ a.ddid = b.ddid /\ a.tchunk = b.tchunk /\ a.d = b.d /\ a.t = b.t /\ a.chans = b.chans

\* the gain array stored for what was added, or <<>> when nothing is
StoredFor(a) ==
    LET key == <<a.d, At(handler.chunk_timestamps, a.tchunk), a.chans>>
    IN IF \E i \in DOMAIN gain_dict : gain_dict[i].key = key
       THEN gain_dict[CHOOSE i \in DOMAIN gain_dict : gain_dict[i].key = key].val
       ELSE <<>>

\* C21: after any sequence of add_to_gain_dict calls, the gain array of every
\* (DDID, time chunk, direction, output time slot, output frequency slot) that was
\* added is the one the dictionary holds for it, unless a later call added the same
\* chunk, direction and slots again
C21_GainsKeptPerSlot ==
    \A a \in Added :
        (\A b \in Added : SameSlot(a, b) => b.no <= a.no) => StoredFor(a) = a.gain

\* the part of C21 that the code keeps: the entry of a (time chunk, direction,
\* frequency slot) holds the last output time slot of the last call that added it,
\* whatever its DDID
C21_LastSlotOfLastCall ==
    \A a \in Added :
        (\A b \in Added : (b.tchunk = a.tchunk /\ b.d = a.d /\ b.chans = a.chans)
                             => (b.no < a.no \/ (b.no = a.no /\ b.t <= a.t)))
            => StoredFor(a) = a.gain

----------------------------------------------------------------------------
(* The active subset runs: rows of distinct TIME cut into tiles of tdim rows, *)
(* any set of rows as the active subset, baseline bounds set or not, no flag  *)
(* column applied                                                             *)

ActiveRowCounts == {2, 3, 5}
BaselineBounds == {<<0, 0>>, <<2, 0>>, <<0, 2>>, <<2, 2>>}    \* <<min_baseline, max_baseline>>

InitActive ==
    /\ pc = "constructed"
    /\ \E n \in ActiveRowCounts, tdim \in TDims, bl \in BaselineBounds :
       \E active \in SUBSET (0..(n - 1)) :
          /\ ms = [time_col |-> [i \in 1..n |-> 10 * i],
                   ddid_col |-> [i \in 1..n |-> 0],
                   antea |-> [i \in 1..n |-> 0],
                   anteb |-> [i \in 1..n |-> 1],
                   DATA |-> [r \in 0..(n - 1) |-> [f \in 0..0 |-> [k \in 0..0 |-> DataVal(r, f, k)]]],
                   UVW |-> [r \in 0..(n - 1) |-> <<r + 1, 0, 0>>],
                   FLAG |-> FullCol(n, 1, 1, FALSE),
                   FLAG_ROW |-> [r \in 0..(n - 1) |-> FALSE],
                   BITFLAG |-> [state |-> "absent", cells |-> FullCol(n, 1, 1, {})],
                   BITFLAG_ROW |-> [present |-> FALSE, cells |-> [r \in 0..(n - 1) |-> {}]]]
          /\ opts = [tdim |-> tdim, nfreq |-> 1, fdim |-> 1, min_chunks_per_tile |-> 1,
                     ddids |-> <<0>>, ncorr |-> 1, nants |-> 2,
                     reinit_bitflags |-> FALSE,
                     auto_fill_bitflag |-> {},
                     apply_flags |-> "False",
                     apply_bitflags |-> {},
                     save_bitflag |-> {},
                     active_subset |-> TRUE, active_row_numbers |-> active,
                     min_baseline |-> bl[1], max_baseline |-> bl[2],
                     load_model |-> FALSE]
    /\ handler = NoHandler
    /\ tile_list = <<>>
    /\ shared = <<>>
    /\ tilemem = <<>>
    /\ cube = NoCube
    /\ ret = NoRet
    /\ workers = NoWorkers
    /\ gain_dict = <<>>
    /\ calls = <<>>
    /\ outcome = Outcome("none", 0, "ok", "none")

NextActive ==
    \/ DefineChunk
    \/ \E t \in DOMAIN tile_list : Load(t)

SpecActive == InitActive /\ [][NextActive]_vars

----------------------------------------------------------------------------
(* C22 *)

\* dataset row x is excluded by the baseline bounds
BaselineExcluded(x) ==
    LET uv2 == ms.UVW[x][1] * ms.UVW[x][1] + ms.UVW[x][2] * ms.UVW[x][2]
    IN \/ (opts.min_baseline # 0 \/ opts.max_baseline # 0) /\ uv2 < opts.min_baseline * opts.min_baseline
       \/ opts.max_baseline # 0 /\ uv2 > opts.max_baseline * opts.max_baseline

\* load() of tile t has ended well and its flags carry PRIOR on exactly the rows
\* that are not active or are excluded by the baseline bounds
PriorOnInactiveRows(t) ==
    LET tile == tile_list[t] IN
    /\ outcome.status = "ok"
    /\ \A r \in 0..(TileNRows(tile) - 1) :
          \A f \in 0..(opts.nfreq - 1), k \in 0..(opts.ncorr - 1) :
             shared[tile.data_dict_name].flags[r][f][k] =
                IF tile.first_row + r \notin opts.active_row_numbers
                   \/ BaselineExcluded(tile.first_row + r)
                THEN FL_PRIOR ELSE FL_ZERO

\* C22: with an active row subset configured, load() of every tile, whatever its
\* first_row, marks PRIOR on exactly the rows of the tile whose dataset row number is
\* not in the subset (plus the rows excluded by the baseline bounds); active rows of
\* other tiles neither clear PRIOR nor make the load fail
C22_PriorOutsideActiveSubset ==
    \A t \in DOMAIN tile_list :
        (LoadedPastCreate(t) /\ opts.active_subset) => PriorOnInactiveRows(t)

\* the part of C22 that the code keeps: a tile none of whose predecessors holds an
\* active row
C22_NoActiveRowBefore ==
    \A t \in DOMAIN tile_list :
        (/\ LoadedPastCreate(t) /\ opts.active_subset
         /\ \A x \in opts.active_row_numbers : x >= tile_list[t].first_row)
            => PriorOnInactiveRows(t)

----------------------------------------------------------------------------
(* ReadModelHandler.__init__: the checks that end the construction *)

\* the channel counts of the selected DDIDs: len(ddid_chanfreqs[i])
DdidNChan(m, ddids) ==
    [i \in DOMAIN ddids |-> At(m.spw_nchan, At(m.ddid_spw, ddids[i]))]

\* mutant: more weight sets than models are refused, fewer are not
WeightsRefusedIfMore(weights, models) ==
    weights.given /\ Len(weights.arr) # 1 /\ Len(weights.arr) > Len(models)

\* the test that ends in "need as many sets of weights as there are models"
WeightsRefused(weights, models) ==
    weights.given /\ Len(weights.arr) # 1 /\ Len(weights.arr) # Len(models)

\* the constructor on the data set m with the arguments o: how it ends and, when it
\* ends well, the attributes it has set
HandlerInit(m, o) ==
    LET nchan == DdidNChan(m, o.ddids)
        nrows == Len(m.time_col)
        failed(e) == [status |-> "error", error |-> e, nfreq |-> 0, nrows |-> 0,
                      has_weights |-> FALSE, weights |-> <<>>]
    IN IF \E i \in DOMAIN nchan : nchan[i] # nchan[1]
       THEN failed("ValueError: channels")
       ELSE IF nrows = 0
       THEN failed("ValueError: no rows")
       ELSE IF ~FlagSetup(m.BITFLAG, o.flagopts).constructed
       THEN failed("RuntimeError: no BITFLAG")
       ELSE IF WeightsRefused(o.weights, o.models)
       THEN failed("ValueError: weights")
       ELSE [status |-> "ok", error |-> "none", nfreq |-> nchan[1], nrows |-> nrows,
             has_weights |-> o.weights.given,
             weights |-> IF ~o.weights.given THEN [i \in DOMAIN o.models |-> "None"]
                         ELSE IF Len(o.weights.arr) = 1
                         THEN [i \in DOMAIN o.models |-> o.weights.arr[1]]
                         ELSE o.weights.arr]

\* ReadModelHandler(...): a constructor that raises leaves no handler to call
\* define_chunk on
Construct ==
    /\ pc = "new"
    /\ LET res == HandlerInit(ms, opts)
       IN /\ pc' = IF res.status = "ok" THEN "constructed" ELSE "failed"
          /\ handler' = [chunk_find |-> <<>>, nfreq |-> res.nfreq, nrows |-> res.nrows,
                         has_weights |-> res.has_weights, weights |-> res.weights]
          /\ outcome' = Outcome("__init__", 0, res.status, res.error)
    /\ UNCHANGED <<ms, opts, tile_list, shared, tilemem, cube, ret, workers, gain_dict, calls>>

\* the constructor runs: two DDIDs on two spectral windows of equal or unequal
\* channel counts, any selection of them, zero to two rows selected, no weights or
\* zero to three weight sets for one to three models, --flags-save given or not on a
\* data set without BITFLAG
CtorRowCounts == {0, 1, 2}
CtorSpwNChan == {<<2, 2>>, <<2, 4>>, <<4, 2>>}
CtorDdids == {<<0>>, <<1>>, <<0, 1>>}
CtorWeights == {PyNone, PySome(<<>>), PySome(<<"WEIGHT">>), PySome(<<"WEIGHT", "WEIGHT_SPECTRUM">>),
                PySome(<<"WEIGHT", "WEIGHT_SPECTRUM", "WEIGHT">>)}
CtorModels == {<<"MODEL_DATA">>, <<"MODEL_DATA", "DIR1_DATA">>,
               <<"MODEL_DATA", "DIR1_DATA", "DIR2_DATA">>}

InitCtor ==
    /\ pc = "new"
    /\ \E n \in CtorRowCounts, nch \in CtorSpwNChan, ddids \in CtorDdids,
          w \in CtorWeights, models \in CtorModels, save \in {"None", "cubical"}, tdim \in TDims :
          /\ ms = [time_col |-> [i \in 1..n |-> 10 * i],
                   ddid_col |-> [i \in 1..n |-> ddids[1]],
                   antea |-> [i \in 1..n |-> 0],
                   anteb |-> [i \in 1..n |-> 1],
                   spw_nchan |-> nch,
                   ddid_spw |-> <<0, 1>>,
                   BITFLAG |-> [state |-> "absent", cells |-> <<>>]]
          /\ opts = [tdim |-> tdim, nfreq |-> At(nch, ddids[1]), fdim |-> 1,
                     min_chunks_per_tile |-> 1, ddids |-> ddids,
                     weights |-> w, models |-> models,
                     flagopts |-> [reinit |-> FALSE, apply |-> {}, save |-> save,
                                   auto_init |-> "None"]]
    /\ handler = NoHandler
    /\ tile_list = <<>>
    /\ shared = <<>>
    /\ tilemem = <<>>
    /\ cube = NoCube
    /\ ret = NoRet
    /\ workers = NoWorkers
    /\ gain_dict = <<>>
    /\ calls = <<>>
    /\ outcome = Outcome("none", 0, "ok", "none")

NextCtor ==
    \/ Construct
    \/ DefineChunk

SpecCtor == InitCtor /\ [][NextCtor]_vars

----------------------------------------------------------------------------
(* C23 *)

Constructing == outcome.op = "__init__"

NonUniformChannels ==
    \E i, j \in DOMAIN opts.ddids :
        At(ms.spw_nchan, At(ms.ddid_spw, opts.ddids[i])) # At(ms.spw_nchan, At(ms.ddid_spw, opts.ddids[j]))

EmptySelection == Len(ms.time_col) = 0

FailedBeforeTiles ==
    /\ outcome.status = "error"
    /\ pc = "failed"
    /\ tile_list = <<>>

\* C23 as stated: construction fails, before any Tile is produced, whenever the
\* selected DDIDs do not all have the same channel count, whenever the number of
\* weight sets differs from the number of models, or whenever the row selection is
\* empty
C23_FatalConfiguration ==
    /\ pc = "failed" => tile_list = <<>>
    /\ Constructing =>
         ((\/ NonUniformChannels
           \/ opts.weights.given /\ Len(opts.weights.arr) # Len(opts.models)
           \/ EmptySelection) => FailedBeforeTiles)

\* C23 as the code has it: a single weight set is taken for every model, so the
\* weight sets are refused only when they are neither one nor as many as the models
C23_FatalUnlessOneWeightSet ==
    /\ pc = "failed" => tile_list = <<>>
    /\ Constructing =>
         ((\/ NonUniformChannels
           \/ opts.weights.given /\ Len(opts.weights.arr) # 1
                                 /\ Len(opts.weights.arr) # Len(opts.models)
           \/ EmptySelection) => FailedBeforeTiles)

\* construction has failed on the weight sets alone: fewer of them than models,
\* uniform channels, rows selected
C23_Witness ==
    /\ Constructing
    /\ ~NonUniformChannels /\ ~EmptySelection
    /\ opts.weights.given /\ Len(opts.weights.arr) = 2 /\ Len(opts.models) = 3
    /\ outcome.error = "ValueError: weights"
    /\ pc = "failed"

----------------------------------------------------------------------------
(* ReadModelHandler.putslice *)

\* a bound of a slice: None or a number
NoBound == [none |-> TRUE, v |-> 0]
Bound(v) == [none |-> FALSE, v |-> v]

\* slice(None) and slice(i0, i1)
SliceAll == [start |-> NoBound, stop |-> NoBound]
PySlice(i0, i1) == [start |-> i0, stop |-> i1]

\* the indices that seq[slice] takes from an axis of length n (bounds >= 0)
SliceIndices(slice, n) ==
    LET lo == IF slice.start.none THEN 0 ELSE Min2(slice.start.v, n)
        hi == IF slice.stop.none THEN n ELSE Min2(slice.stop.v, n)
    IN Range(lo, hi, 1)

\* _ms_blc[0] and _ms_trc[0] as the constructor sets them; -1 is the last channel
MsChan0(slice) == IF slice.start.none THEN 0 ELSE slice.start.v
MsChan1(slice) == IF slice.stop.none THEN -1 ELSE slice.stop.v - 1

\* mutant: the values go to the first channels of the zero block
Value0AtStart(value, nrows, slice, nchan_orig) ==
    [r \in 0..(nrows - 1) |-> [f \in 0..(nchan_orig - 1) |-> [k \in DOMAIN value[0][0] |->
        IF f < Len(SliceIndices(slice, nchan_orig)) THEN value[r][f][k] ELSE 0]]]

\* value0 = np.zeros((nrows, _nchan_orig, value.shape[2])); value0[:, _channel_slice, :] = value
Value0(value, nrows, slice, nchan_orig) ==
    LET sel == SliceIndices(slice, nchan_orig)
    IN [r \in 0..(nrows - 1) |-> [f \in 0..(nchan_orig - 1) |-> [k \in DOMAIN value[0][0] |->
           IF \E p \in DOMAIN sel : sel[p] = f
           THEN value[r][IndexOf(sel, f) - 1][k] ELSE 0]]]

\* table.putcol(column, value, startrow, nrows): the cells of the rows are replaced
PutCol(column, value, startrow, nrows) ==
    [r \in DOMAIN column |->
        IF r >= startrow /\ r < startrow + nrows
        THEN [defined |-> TRUE, cells |-> value[r - startrow]]
        ELSE column[r]]

\* table.putcolslice(column, value, blc, trc, [], startrow, nrows) when it works:
\* the channels chan0..chan1 of the rows are replaced
PutColSlice(column, value, chan0, chan1, startrow, nrows) ==
    [r \in DOMAIN column |->
        IF r >= startrow /\ r < startrow + nrows
        THEN [column[r] EXCEPT !.cells = [f \in DOMAIN @ |->
                 IF f >= chan0 /\ f <= NpIndex(chan1, Cardinality(DOMAIN @))
                 THEN value[r - startrow][f - chan0] ELSE @[f]]]
        ELSE column[r]]

\* a call received by the table
TableCall(op, value, startrow, nrows, raised) ==
    [op |-> op, value |-> value, startrow |-> startrow, nrows |-> nrows, raised |-> raised]

\* putslice(column, value, startrow, nrows): the column afterwards and the writes
\* the table has received, in order; slice_ok tells whether putcolslice, if it is
\* called, returns or raises
PutSlice(column, value, startrow, nrows, o, slice_ok) ==
    LET full == TableCall("putcol", value, startrow, nrows, FALSE)
        sliced(raised) == TableCall("putcolslice", value, startrow, nrows, raised)
        value0 == Value0(value, nrows, o.channel_slice, o.nchan_orig)
        fallback == TableCall("putcol", value0, startrow, nrows, FALSE)
    IN IF o.channel_slice = SliceAll
       THEN [column |-> PutCol(column, value, startrow, nrows), writes |-> <<full>>]
       ELSE IF column[startrow].defined /\ slice_ok
       THEN [column |-> PutColSlice(column, value, MsChan0(o.channel_slice),
                                    MsChan1(o.channel_slice), startrow, nrows),
             writes |-> <<sliced(FALSE)>>]
       ELSE [column |-> PutCol(column, value0, startrow, nrows),
             writes |-> IF column[startrow].defined
                        THEN <<sliced(TRUE), fallback>> ELSE <<fallback>>]

\* the values to write to a block of rows: nonzero, and other than what the column
\* holds at the start
SliceValue(startrow, nrows, nfreq) ==
    [r \in 0..(nrows - 1) |-> [f \in 0..(nfreq - 1) |-> [k \in 0..0 |-> 10 * (startrow + r + 1) + f + 1]]]

PutSliceBlocks == {<<0, 1>>, <<1, 1>>, <<2, 1>>, <<0, 2>>, <<1, 2>>, <<0, 3>>}   \* <<startrow, nrows>>

\* save() or a flag export writes a block of rows to a column
PutSliceCall ==
    /\ pc = "constructed"
    /\ \E blk \in PutSliceBlocks, slice_ok \in BOOLEAN :
          LET nfreq == Len(SliceIndices(opts.channel_slice, opts.nchan_orig))
              res == PutSlice(ms.COL, SliceValue(blk[1], blk[2], nfreq), blk[1], blk[2], opts, slice_ok)
          IN /\ ms' = [ms EXCEPT !.COL = res.column]
             /\ calls' = res.writes
             /\ outcome' = Outcome("putslice", 0, "ok", "none")
    /\ UNCHANGED <<pc, opts, handler, tile_list, shared, tilemem, cube, ret, workers, gain_dict>>

\* the slice runs: a column of three rows and three channels, each row defined or not,
\* and the channel selections none, "1~1", ":2" and "1:"
ChannelSlices == {SliceAll, PySlice(Bound(1), Bound(2)), PySlice(NoBound, Bound(2)),
                  PySlice(Bound(1), NoBound)}

InitSlice ==
    /\ pc = "constructed"
    /\ \E defined \in [0..2 -> BOOLEAN] :
          ms = [COL |-> [r \in 0..2 |->
                  [defined |-> defined[r],
                   cells |-> [f \in 0..2 |-> [k \in 0..0 |-> IF defined[r] THEN 7 ELSE 0]]]]]
    /\ \E slice \in ChannelSlices : opts = [channel_slice |-> slice, nchan_orig |-> 3]
    /\ handler = NoHandler
    /\ tile_list = <<>>
    /\ shared = <<>>
    /\ tilemem = <<>>
    /\ cube = NoCube
    /\ ret = NoRet
    /\ workers = NoWorkers
    /\ gain_dict = <<>>
    /\ calls = <<>>
    /\ outcome = Outcome("none", 0, "ok", "none")

NextSlice == PutSliceCall

SpecSlice == InitSlice /\ [][NextSlice]_vars

----------------------------------------------------------------------------
(* C24 *)

\* the value that the putslice call of this step was given
GivenValue(w) ==
    SliceValue(w.startrow, w.nrows, Len(SliceIndices(opts.channel_slice, opts.nchan_orig)))

\* a full-column write in which the selected channels carry the given values and
\* all other channels are zero
ZeroFilled(w) ==
    LET sel == SliceIndices(opts.channel_slice, opts.nchan_orig) IN
    /\ w.op = "putcol"
    /\ DOMAIN w.value = 0..(w.nrows - 1)
    /\ \A r \in 0..(w.nrows - 1) :
          /\ DOMAIN w.value[r] = 0..(opts.nchan_orig - 1)
          /\ \A f \in 0..(opts.nchan_orig - 1) : \A k \in DOMAIN w.value[r][f] :
                w.value[r][f][k] = IF \E p \in DOMAIN sel : sel[p] = f
                                   THEN GivenValue(w)[r][(CHOOSE p \in DOMAIN sel : sel[p] = f) - 1][k]
                                   ELSE 0

\* C24: with a channel selection active, putslice makes at most one sliced write
\* attempt, and only if the first cell of the block is defined; if the attempt is
\* skipped or fails it makes exactly one full-column write, in which the selected
\* channels carry the given values and all other channels are zero, and nothing
\* after it; with no channel selection it makes exactly one full-column write of
\* the given values
C24_OneFallbackWrite ==
    [][outcome'.op = "putslice" =>
         LET w == calls'
             first_defined == ms.COL[w[1].startrow].defined
         IN IF opts.channel_slice = SliceAll
            THEN Len(w) = 1 /\ w[1].op = "putcol" /\ w[1].value = GivenValue(w[1])
            ELSE /\ Len(w) \in {1, 2}
                 /\ (w[1].op = "putcolslice") = first_defined
                 /\ w[1].op = "putcolslice" =>
                       /\ w[1].value = GivenValue(w[1])
                       /\ IF w[1].raised THEN Len(w) = 2 /\ ZeroFilled(w[2]) ELSE Len(w) = 1
                 /\ w[1].op # "putcolslice" => Len(w) = 1 /\ ZeroFilled(w[1])]_vars

\* a sliced write of the channels 1..1 has failed and the full-column write has
\* followed it: the rows hold zero in the channels 0 and 2
C24_Witness ==
    /\ outcome.op = "putslice"
    /\ opts.channel_slice = PySlice(Bound(1), Bound(2))
    /\ Len(calls) = 2
    /\ calls[1].op = "putcolslice" /\ calls[1].raised
    /\ calls[2].op = "putcol"
    /\ \E r \in DOMAIN ms.COL :
          /\ ms.COL[r].cells[0][0] = 0 /\ ms.COL[r].cells[2][0] = 0
          /\ ms.COL[r].cells[1][0] = 10 * (r + 1) + 1

----------------------------------------------------------------------------
(* _parse_slice and _parse_range.  A string is the sequence of its characters. *)

IsDigit(c) == \E d \in DOMAIN DigitChars : DigitChars[d] = c

\* re.match("\d*$", s)
AllDigits(s) == \A p \in DOMAIN s : IsDigit(s[p])

RECURSIVE StrInt(_)
\* int(s) for a string of one or more digits
StrInt(s) ==
    LET d == IndexOf(DigitChars, Last(s)) - 1
    IN IF Len(s) = 1 THEN d ELSE 10 * StrInt(SubSeq(s, 1, Len(s) - 1)) + d

\* int(s) raises ValueError unless s is a number (no sign or blank occurs here)
IntRaises(s) == s = <<>> \/ ~AllDigits(s)

RECURSIVE Strip(_)
\* s.strip()
Strip(s) ==
    IF s = <<>> THEN s
    ELSE IF Head(s) = " " THEN Strip(Tail(s))
    ELSE IF Last(s) = " " THEN Strip(SubSeq(s, 1, Len(s) - 1))
    ELSE s

\* the position of the first occurrence of sep in s, 0 when there is none
Find(s, sep) ==
    LET at == {p \in 1..(Len(s) - Len(sep) + 1) : SubSeq(s, p, p + Len(sep) - 1) = sep}
    IN IF at = {} THEN 0 ELSE SetMin(at)

RECURSIVE StrSplit(_, _)
\* s.split(sep) for a separator that is not empty
StrSplit(s, sep) ==
    LET p == Find(s, sep)
    IN IF p = 0 THEN <<s>>
       ELSE <<SubSeq(s, 1, p - 1)>> \o StrSplit(SubSeq(s, p + Len(sep), Len(s)), sep)

\* what a call gives: a value, or the exception it raises
Returned(val) == [status |-> "ok", error |-> "none", val |-> val]
Raised(e) == [status |-> "error", error |-> e, val |-> <<>>]

\* an argument by its Python type: None, an int, a tuple or list of ints, a str
ArgNone == [type |-> "NoneType", n |-> 0, items |-> <<>>]
ArgInt(n) == [type |-> "int", n |-> n, items |-> <<>>]
ArgList(items) == [type |-> "list", n |-> 0, items |-> items]
ArgStr(s) == [type |-> "str", n |-> 0, items |-> s]

\* _parse_slice(arg): the slice, with the bounds as in PySlice
ParseSlice(arg) ==
    IF arg.type = "NoneType" \/ (arg.type = "str" /\ arg.items = <<>>)
          \/ (arg.type = "int" /\ arg.n = 0) \/ (arg.type = "list" /\ arg.items = <<>>)
    THEN Returned(SliceAll)
    ELSE IF arg.type # "str" THEN Raised("TypeError")
    ELSE LET a == Strip(arg.items)
             parts(sep) == <<SubSeq(a, 1, Find(a, sep) - 1), SubSeq(a, Find(a, sep) + 1, Len(a))>>
             matches(sep) == Find(a, sep) > 0 /\ AllDigits(parts(sep)[1]) /\ AllDigits(parts(sep)[2])
             bound(str, plus) == IF str = <<>> THEN NoBound ELSE Bound(StrInt(str) + plus)
             slice(i0, i1) == IF i0.none /\ i1.none THEN SliceAll ELSE PySlice(i0, i1)
         IN IF matches(<<"~">>)
            THEN Returned(slice(bound(parts(<<"~">>)[1], 0), bound(parts(<<"~">>)[2], 1)))
            ELSE IF matches(<<":">>)
            THEN Returned(slice(bound(parts(<<":">>)[1], 0), bound(parts(<<":">>)[2], 0)))
            ELSE Raised("ValueError")

\* map(int, strs)
MapInt(strs) ==
    IF \E p \in DOMAIN strs : IntRaises(strs[p]) THEN Raised("ValueError")
    ELSE Returned([p \in DOMAIN strs |-> StrInt(strs[p])])

\* return [ int(arg) ]
ParseDigits(a) == Returned(<<StrInt(a)>>)

RECURSIVE ParseRange(_, _)
\* _parse_range(arg, nmax); nmax is an argument by its type too, since the function
\* calls itself with a str in its place
ParseRange(arg, nmax) ==
    IF nmax.type # "int" THEN Raised("TypeError")              \* range(nmax)
    ELSE LET fullrange == Range(0, nmax.n, 1) IN
         IF arg.type = "NoneType" THEN Returned(fullrange)
         ELSE IF arg.type = "int" THEN Returned(<<arg.n>>)
         ELSE IF arg.type = "list" THEN Returned(arg.items)
         ELSE LET a == Strip(arg.items) IN
              IF a # <<>> /\ AllDigits(a) THEN ParseDigits(a)
              ELSE IF Find(a, <<",">>) > 0 THEN MapInt(StrSplit(<<",">>, a))
              ELSE LET index == ParseRange(ArgStr(a), ArgStr(<<"range or slice">>))
                   IN IF index.status = "error" THEN index
                      ELSE Raised("TypeError")                 \* a list indexed by a list

RECURSIVE Join(_, _)
\* sep.join(strs)
Join(strs, sep) ==
    IF Len(strs) = 1 THEN strs[1] ELSE strs[1] \o sep \o Join(Tail(strs), sep)

\* the numbers written in the arguments, and the forms an argument is written in
ArgNumbers == {0, 5, 7, 8, 12}
ArgPads == {<<>>, <<" ">>}
ArgForms ==
    {[form |-> "None", nums |-> <<>>]}
    \cup {[form |-> f, nums |-> <<a>>] : f \in {"int", "digits"}, a \in ArgNumbers}
    \cup {[form |-> f, nums |-> <<a, b>>] : f \in {"inclusive", "pythonic"}, a \in ArgNumbers, b \in ArgNumbers}
    \cup {[form |-> f, nums |-> <<a, b>>] : f \in {"list", "comma"}, a \in ArgNumbers, b \in ArgNumbers}
    \cup {[form |-> "comma", nums |-> <<a, b, c>>] : a \in {5}, b \in ArgNumbers, c \in ArgNumbers}

\* the argument that a form stands for
ArgOf(fm, pad) ==
    CASE fm.form = "None" -> ArgNone
      [] fm.form = "int" -> ArgInt(fm.nums[1])
      [] fm.form = "list" -> ArgList(fm.nums)
      [] fm.form = "digits" -> ArgStr(pad \o Str(fm.nums[1]) \o pad)
      [] fm.form = "inclusive" -> ArgStr(pad \o Str(fm.nums[1]) \o <<"~">> \o Str(fm.nums[2]) \o pad)
      [] fm.form = "pythonic" -> ArgStr(pad \o Str(fm.nums[1]) \o <<":">> \o Str(fm.nums[2]) \o pad)
      [] fm.form = "comma" -> ArgStr(pad \o Join([p \in DOMAIN fm.nums |-> Str(fm.nums[p])], <<",">>) \o pad)

\* ReadModelHandler.__init__ parses its ddid argument
ParseRangeCall ==
    /\ pc = "args"
    /\ pc' = "parsed"
    /\ ret' = ParseRange(opts.arg, ArgInt(opts.nmax))
    /\ outcome' = Outcome("_parse_range", 0, ret'.status, ret'.error)
    /\ UNCHANGED <<ms, opts, handler, tile_list, shared, tilemem, cube, workers, gain_dict, calls>>

\* ReadModelHandler.__init__ parses its channels argument
ParseSliceCall ==
    /\ pc = "args"
    /\ pc' = "sliced"
    /\ ret' = ParseSlice(opts.arg)
    /\ outcome' = Outcome("_parse_slice", 0, ret'.status, ret'.error)
    /\ UNCHANGED <<ms, opts, handler, tile_list, shared, tilemem, cube, workers, gain_dict, calls>>

InitParse ==
    /\ pc = "args"
    /\ \E fm \in ArgForms, pad \in ArgPads, nmax \in {8, 13} :
          opts = [form |-> fm, arg |-> ArgOf(fm, pad), nmax |-> nmax]
    /\ ms = <<>>
    /\ handler = NoHandler
    /\ tile_list = <<>>
    /\ shared = <<>>
    /\ tilemem = <<>>
    /\ cube = NoCube
    /\ ret = NoRet
    /\ workers = NoWorkers
    /\ gain_dict = <<>>
    /\ calls = <<>>
    /\ outcome = Outcome("none", 0, "ok", "none")

NextParse ==
    \/ ParseRangeCall
    \/ ParseSliceCall

SpecParse == InitParse /\ [][NextParse]_vars

----------------------------------------------------------------------------
(* C25 *)

\* the list of numbers that the documented form names
NamedNumbers(fm, nmax) ==
    CASE fm.form = "None" -> Range(0, nmax, 1)
      [] fm.form \in {"int", "digits"} -> <<fm.nums[1]>>
      [] fm.form = "inclusive" -> Range(fm.nums[1], fm.nums[2] + 1, 1)
      [] fm.form = "pythonic" -> Range(fm.nums[1], fm.nums[2], 1)
      [] fm.form \in {"list", "comma"} -> fm.nums

\* C25: _parse_range(arg, nmax) returns the list of numbers named by arg for every
\* documented form: None gives 0..nmax-1, an int or a digit string "5" gives [5], an
\* inclusive range "5~7" gives [5,6,7], a pythonic range "5:8" gives [5,6,7] and a
\* comma list "5,6,7" gives [5,6,7]
C25_ParseRangeForms ==
    pc = "parsed" => ret = Returned(NamedNumbers(opts.form, opts.nmax))

\* the part of C25 that the code keeps: None, an int, a list and a digit string
\* give their numbers, and every other string raises
C25_ParseRangeAsCoded ==
    pc = "parsed" =>
        IF opts.form.form \in {"None", "int", "list", "digits"}
        THEN ret = Returned(NamedNumbers(opts.form, opts.nmax))
        ELSE ret = Raised(IF opts.form.form = "comma" THEN "ValueError" ELSE "TypeError")

\* _parse_slice itself reads both range forms: "5~7" is slice(5, 8), "5:8" is slice(5, 8)
C25_ParseSliceForms ==
    (pc = "sliced" /\ opts.form.form \in {"inclusive", "pythonic"}) =>
        ret = Returned(PySlice(Bound(opts.form.nums[1]),
                               Bound(opts.form.nums[2] + IF opts.form.form = "inclusive" THEN 1 ELSE 0)))

----------------------------------------------------------------------------
(* The flag cube runs: one to three rows of the cube runs under two more FLAG *)
(* patterns, loaded and handed out chunk by chunk                             *)

FlagCubeRowCounts == {1, 2, 3}

InitFlagCube == CubeInit({"corr0", "row0"}, FlagCubeRowCounts)

NextFlagCube ==
    \/ DefineChunk
    \/ \E t \in DOMAIN tile_list : Load(t)
    \/ \E t \in DOMAIN tile_list : \E e \in DOMAIN tile_list[t].chunk_dict :
          GetChunkCubesCall(t, e)

SpecFlagCube == InitFlagCube /\ [][NextFlagCube]_vars

----------------------------------------------------------------------------
(* C26 *)

\* the chunk that the cubes were last got for: its tile, region and arguments
GotTile == tile_list[cube.tile]
GotData == shared[GotTile.data_dict_name]
GotArgs == ChunkArgs(GotTile, cube.entry, handler)

\* the rows of the chunk (as indices into the tile) that the place (t, a, b) of the
\* cube carries, directly or mirrored
RowsAt(t, a, b) ==
    LET tmin == SetMin({At(GotTile.times, At(GotArgs.rows, j)) : j \in 0..(Len(GotArgs.rows) - 1)})
    IN {r \in SeqRange(GotArgs.rows) :
          /\ At(GotTile.times, r) - tmin = t
          /\ {At(GotTile.antea, r), At(GotTile.anteb, r)} = {a, b}}

\* the bitwise OR of the tile flags of row r at channel f of the chunk over the
\* row's correlations
RowFlagsOr(r, f) == UNION {GotData.flags[r][GotArgs.freq0 + f][k] : k \in 0..(opts.ncorr - 1)}

FlagCubePlaces ==
    {p \in [t : 0..(GotArgs.t_dim - 1), f : 0..(GotArgs.f_dim - 1),
            a : 0..(opts.nants - 1), b : 0..(opts.nants - 1)] : TRUE}

GotCubes == cube.kind = "chunk" /\ outcome.op = "get_chunk_cubes" /\ outcome.status = "ok"

----------------------------------------------------------------------------
(* The tile building runs: tiles are constructed from row chunks, extended by  *)
(* append and merge in any order, and finalized, once or again.  define_chunk  *)
(* appends and merges before it finalizes, so append and merge act on tiles    *)
(* that are not finalized.                                                     *)

BuildRowNumbers == 0..3
BuildTileCounts == {1, 2}           \* tiles that exist at a time
BuildChunkCounts == {1, 2, 3}       \* row chunks held by the tiles together

\* the row chunks: one or two rows in ascending order, as np.where gives them
BuildChunks ==
    {RowChunk(0, SetMin(S), SortSet(S)) : S \in {R \in SUBSET BuildRowNumbers : Cardinality(R) \in {1, 2}}}

RECURSIVE SumLen(_)
SumLen(tiles) == IF tiles = <<>> THEN 0 ELSE Len(Head(tiles).rowchunks) + SumLen(Tail(tiles))

\* Tile(handler, chunk)
TileNew(chunk) ==
    /\ pc = "building"
    /\ Len(tile_list) + 1 \in BuildTileCounts
    /\ SumLen(tile_list) + 1 \in BuildChunkCounts
    /\ tile_list' = Append(tile_list, NewTile(chunk))
    /\ outcome' = Outcome("Tile", Len(tile_list'), "ok", "none")
    /\ UNCHANGED <<pc, ms, opts, handler, shared, tilemem, cube, ret, workers, gain_dict, calls>>

\* tile.append(chunk)
AppendCall(t, chunk) ==
    /\ pc = "building"
    /\ ~tile_list[t].rows_adjusted
    /\ SumLen(tile_list) + 1 \in BuildChunkCounts
    /\ tile_list' = [tile_list EXCEPT ![t] = TileAppend(@, chunk)]
    /\ outcome' = Outcome("append", t, "ok", "none")
    /\ UNCHANGED <<pc, ms, opts, handler, shared, tilemem, cube, ret, workers, gain_dict, calls>>

\* tile.merge(other); the other tile is dropped, as the coarsening loop drops it
MergeCall(t, u) ==
    /\ pc = "building"
    /\ t # u
    /\ ~tile_list[t].rows_adjusted /\ ~tile_list[u].rows_adjusted
    /\ LET merged == [tile_list EXCEPT ![t] = TileMerge(@, tile_list[u])]
       IN tile_list' = [i \in 1..(Len(merged) - 1) |-> IF i < u THEN merged[i] ELSE merged[i + 1]]
    /\ outcome' = Outcome("merge", IF u < t THEN t - 1 ELSE t, "ok", "none")
    /\ UNCHANGED <<pc, ms, opts, handler, shared, tilemem, cube, ret, workers, gain_dict, calls>>

\* tile.finalize(); calls notes whether the tile had been finalized before
FinalizeCall(t) ==
    /\ pc = "building"
    /\ tile_list' = [tile_list EXCEPT ![t] = Finalize(@, handler)]
    /\ calls' = <<tile_list[t].rows_adjusted>>
    /\ outcome' = Outcome("finalize", t, "ok", "none")
    /\ UNCHANGED <<pc, ms, opts, handler, shared, tilemem, cube, ret, workers, gain_dict>>

InitBuild ==
    /\ pc = "building"
    /\ ms = [time_col |-> [i \in 1..Cardinality(BuildRowNumbers) |-> i],
             ddid_col |-> [i \in 1..Cardinality(BuildRowNumbers) |-> 0],
             antea |-> [i \in 1..Cardinality(BuildRowNumbers) |-> 0],
             anteb |-> [i \in 1..Cardinality(BuildRowNumbers) |-> 1]]
    /\ \E fs \in FreqShapes :
          opts = [tdim |-> 1, nfreq |-> fs[1], fdim |-> fs[2], min_chunks_per_tile |-> 0, ddids |-> <<0>>]
    /\ handler = DefineChunkHandler(ms, opts)
    /\ tile_list = <<>>
    /\ shared = <<>>
    /\ tilemem = <<>>
    /\ cube = NoCube
    /\ ret = NoRet
    /\ workers = NoWorkers
    /\ gain_dict = <<>>
    /\ calls = <<>>
    /\ outcome = Outcome("none", 0, "ok", "none")

NextBuild ==
    \/ \E chunk \in BuildChunks : TileNew(chunk)
    \/ \E t \in DOMAIN tile_list : \E chunk \in BuildChunks : AppendCall(t, chunk)
    \/ \E t, u \in DOMAIN tile_list : MergeCall(t, u)
    \/ \E t \in DOMAIN tile_list : FinalizeCall(t)

SpecBuild == InitBuild /\ [][NextBuild]_vars

\* the first rows and the last rows of the row chunks a tile owns, as dataset
\* row numbers: finalize has taken first_row off the rows of a finalized tile
FirstRowsOf(tile) ==
    {tile.rowchunks[i].rows[1] + (IF tile.rows_adjusted THEN tile.first_row ELSE 0) :
        i \in DOMAIN tile.rowchunks}
LastRowsOf(tile) ==
    {Last(tile.rowchunks[i].rows) + (IF tile.rows_adjusted THEN tile.first_row ELSE 0) :
        i \in DOMAIN tile.rowchunks}

\* C27: after construction and after any sequence of append and merge calls, a
\* tile's first_row is the least first row and its last_row the greatest last
\* row over all the row chunks the tile owns
C27_RowSpanOfOwnedChunks ==
    \A t \in DOMAIN tile_list :
        /\ tile_list[t].first_row = SetMin(FirstRowsOf(tile_list[t]))
        /\ tile_list[t].last_row = SetMax(LastRowsOf(tile_list[t]))

\* a merge has just given a tile three row chunks, and a row chunk other than
\* the one the tile was constructed from supplies first_row, another last_row
C27_Witness ==
    /\ pc = "building" /\ outcome.op = "merge"
    /\ LET tile == tile_list[outcome.tile]
       IN /\ Len(tile.rowchunks) = 3
          /\ tile.first_row < tile.rowchunks[1].rows[1]
          /\ tile.last_row > Last(tile.rowchunks[3].rows)

\* C28: finalize leaves every row chunk's rows as dataset row number minus
\* first_row, all within 0..last_row - first_row, and a finalize of a tile that
\* is already finalized leaves its rows as they are
C28_FinalizeRebasesOnce ==
    [][(outcome'.op = "finalize" /\ pc = "building") =>
          LET old == tile_list[outcome'.tile]
              new == tile_list'[outcome'.tile]
          IN /\ new.rows_adjusted
             /\ Len(new.rowchunks) = Len(old.rowchunks)
             /\ \A i \in DOMAIN new.rowchunks : \A k \in DOMAIN new.rowchunks[i].rows :
                   /\ new.rowchunks[i].rows[k] \in 0..(new.last_row - new.first_row)
                   /\ new.rowchunks[i].rows[k] =
                         IF old.rows_adjusted THEN old.rowchunks[i].rows[k]
                         ELSE old.rowchunks[i].rows[k] - old.first_row]_vars

\* a tile whose first_row is not 0 has been finalized and finalized again
C28_Witness ==
    /\ pc = "building" /\ outcome.op = "finalize"
    /\ tile_list[outcome.tile].first_row > 0
    /\ Len(tile_list[outcome.tile].rowchunks) > 1
    /\ calls = <<TRUE>>

----------------------------------------------------------------------------
(* The chunk_by runs: define_chunk with boundary columns.  Rows in any order, *)
(* any TIME, SCAN_NUMBER and FIELD_ID per row, one DDID.                      *)

ScanRowCounts == {1, 2, 3}
ScanNumbers == {1, 2, 4}
FieldIds == {0, 1}
ChunkByColumns == {<<"SCAN_NUMBER">>, <<"SCAN_NUMBER", "FIELD_ID">>}
ChunkByJumps == {0, 1}

InitScan ==
    /\ pc = "constructed"
    /\ \E n \in ScanRowCounts :
       \E time \in [1..n -> Timestamps], scan \in [1..n -> ScanNumbers], field \in [1..n -> FieldIds] :
          ms = [time_col |-> time,
                ddid_col |-> [i \in 1..n |-> 0],
                antea |-> [i \in 1..n |-> 0],
                anteb |-> [i \in 1..n |-> 1],
                SCAN_NUMBER |-> scan, FIELD_ID |-> field]
    /\ \E tdim \in TDims, columns \in ChunkByColumns, jump \in ChunkByJumps :
          opts = [tdim |-> tdim, nfreq |-> 1, fdim |-> 1,
                  min_chunks_per_tile |-> 1, ddids |-> <<0>>,
                  chunk_by |-> columns, chunk_by_jump |-> jump]
    /\ handler = NoHandler
    /\ tile_list = <<>>
    /\ shared = <<>>
    /\ tilemem = <<>>
    /\ cube = NoCube
    /\ ret = NoRet
    /\ workers = NoWorkers
    /\ gain_dict = <<>>
    /\ calls = <<>>
    /\ outcome = Outcome("none", 0, "ok", "none")

NextScan == DefineChunk

SpecScan == InitScan /\ [][NextScan]_vars

\* the rows come in the order of their TIME
TimeOrdered == \A i, j \in DOMAIN ms.time_col : i < j => ms.time_col[i] <= ms.time_col[j]

\* the timeslots at which a named column jumps by more than the threshold
\* between one row and the row before it
ForcedBoundaries ==
    {handler.times[i] : i \in {r \in DOMAIN ms.time_col \ {1} :
        \E c \in DOMAIN opts.chunk_by :
            Abs(ms[opts.chunk_by[c]][r] - ms[opts.chunk_by[c]][r - 1]) > opts.chunk_by_jump}}

\* the time chunks as pairs of first timeslot and end
TimeChunkSpans ==
    {<<handler.timechunks[k], handler.timechunks[k + 1]>> : k \in 1..(Len(handler.timechunks) - 1)}

ChunkedBy ==
    /\ \A b \in ForcedBoundaries : \A s \in TimeChunkSpans : ~(s[1] < b /\ b < s[2])
    /\ \A s \in TimeChunkSpans : s[2] - s[1] <= opts.tdim
    /\ \A ts \in 0..(Cardinality(SeqRange(ms.time_col)) - 1) :
          \E s \in TimeChunkSpans : s[1] <= ts /\ ts < s[2]

----------------------------------------------------------------------------
(* The region runs: rows in any order with any TIME and DDID, cut into tiles *)
(* that are loaded and released in any order                                 *)

RegionRowCounts == {2, 3, 4}

InitRegion ==
    /\ pc = "constructed"
    /\ \E n \in RegionRowCounts : \E rows \in [1..n -> ChunkRowSet] : \E tdim \in TDims :
          LET cfg == FlagSetup([state |-> "absent", cells |-> FullCol(n, 1, 1, {})],
                               [reinit |-> FALSE, apply |-> {}, save |-> "None", auto_init |-> "None"])
          IN
          /\ ms = [time_col |-> [i \in 1..n |-> rows[i].time],
                   ddid_col |-> [i \in 1..n |-> rows[i].ddid],
                   antea |-> [i \in 1..n |-> 0],
                   anteb |-> [i \in 1..n |-> 1],
                   DATA |-> [r \in 0..(n - 1) |-> [f \in 0..0 |-> [k \in 0..0 |-> DataVal(r, f, k)]]],
                   UVW |-> [r \in 0..(n - 1) |-> <<r + 1, 0, 0>>],
                   FLAG |-> FullCol(n, 1, 1, FALSE),
                   FLAG_ROW |-> [r \in 0..(n - 1) |-> FALSE],
                   BITFLAG |-> cfg.BITFLAG,
                   BITFLAG_ROW |-> BitflagRowOf(n, 1, 1, cfg.BITFLAG)]
          /\ opts = [tdim |-> tdim, nfreq |-> 1, fdim |-> 1, min_chunks_per_tile |-> 1,
                     ddids |-> DDIDs, ncorr |-> 1, nants |-> 2,
                     reinit_bitflags |-> cfg.reinit_bitflags,
                     auto_fill_bitflag |-> cfg.auto_fill_bitflag,
                     apply_flags |-> cfg.apply_flags,
                     apply_bitflags |-> cfg.apply_bitflags,
                     save_bitflag |-> cfg.save_bitflag,
                     active_subset |-> FALSE, active_row_numbers |-> {},
                     min_baseline |-> 0, max_baseline |-> 0,
                     load_model |-> FALSE]
    /\ handler = NoHandler
    /\ tile_list = <<>>
    /\ shared = <<>>
    /\ tilemem = <<>>
    /\ cube = NoCube
    /\ ret = NoRet
    /\ workers = NoWorkers
    /\ gain_dict = <<>>
    /\ calls = <<>>
    /\ outcome = Outcome("none", 0, "ok", "none")

NextRegion ==
    \/ DefineChunk
    \/ \E t \in DOMAIN tile_list : Load(t)
    \/ \E t \in DOMAIN tile_list : Release(t)

SpecRegion == InitRegion /\ [][NextRegion]_vars

\* the region of tile u is the same in two stores: absent in both, or the same in both
SameRegion(store1, store2, u) ==
    LET name == tile_list[u].data_dict_name
    IN /\ (name \in DOMAIN store1) = (name \in DOMAIN store2)
       /\ name \in DOMAIN store1 => store1[name] = store2[name]

\* C30: no two tiles of the tile list have the same region name, and a load or
\* a release of one tile leaves the region of every other tile as it is,
\* whatever was loaded or released before
C30_OwnRegionPerTile ==
    /\ [](\A t, u \in DOMAIN tile_list :
             t # u => tile_list[t].data_dict_name # tile_list[u].data_dict_name)
    /\ [][(pc = "chunked" /\ outcome'.op \in {"load", "release"}) =>
             \A u \in DOMAIN tile_list : u # outcome'.tile => SameRegion(shared, shared', u)]_vars

\* three tiles; the second was loaded, and now the first has been released
\* while the region of the second stays and the third has none
C30_Witness ==
    /\ pc = "chunked" /\ Len(tile_list) = 3
    /\ outcome = Outcome("release", 1, "ok", "none")
    /\ tile_list[1].data_dict_name \notin DOMAIN shared
    /\ tile_list[2].data_dict_name \in DOMAIN shared
    /\ tile_list[3].data_dict_name \notin DOMAIN shared

====
